---- MODULE Spec2Model ----
(***************************************************************************)
(* Background canvas ("network pulse") of frontend/app.js: the colour      *)
(* model, the lifecycle envelope, the node and connection pools, the       *)
(* spawner, the seeding routines and the frame driver.                     *)
(*                                                                         *)
(* Units.  JavaScript numbers are doubles; the model uses integers:        *)
(*   time      1 tick  = 100 ms          (elapsed, birthTime, lifetime)    *)
(*   position  1 unit  = 1/10000 of the surface extent (x, y)              *)
(*   drift     1 unit  = 1/10000 of the extent per tick                    *)
(*   colour    1 unit  = 1/ColorScale of a channel step                    *)
(*   opacity   a fraction [num, den] (exact)                               *)
(* Math.random() is an input: every draw is picked with \E from a small    *)
(* set of values the real generator can return.                            *)
(***************************************************************************)
EXTENDS Integers, Sequences, FiniteSets, TLC

(* ------------------------------------------------------------------ *)
(* Units                                                               *)
(* ------------------------------------------------------------------ *)
TicksPerSecond == 1000 \div 100
PosScale == 100 * 100
ColorScale == 300 * 100

(* ------------------------------------------------------------------ *)
(* Bounds of the model                                                 *)
(* ------------------------------------------------------------------ *)
\* Pool capacities and seeding budgets, scaled down from the source values
\* (65, 80, 40, 20, 100) so that the pools saturate within the explored runs.
MAX_NODES == 3
MAX_CONNECTIONS == 2
SEED_COUNT == 2
SEED_CONN_TARGET == 1
SEED_CONN_ATTEMPTS == 2
\* Simulated time explored, in ticks, and number of frame callbacks explored.
MaxTime == 230
MaxFrames == 3
\* Number of writes of the shared risk score explored.
MaxScoreWrites == 2
\* Scores explored outside [0, 100], on either side.
ScoreMargin == 10
\* Number of consecutive smoothing steps explored.
LerpFrames == 200
\* Number of colour steps explored when the score changes between frames.
MaxColorFrames == 5
\* lifecycleOpacity is called for ages from AgeMargin ticks before birth to
\* AgeMargin ticks after expiry
AgeMargin == 3
\* Results of one analysis, and the number of analyses
MaxAnalyses == 2

(* ------------------------------------------------------------------ *)
(* Config (app.js 1308-1324), in model units                           *)
(* ------------------------------------------------------------------ *)
NODE_SPAWN_INTERVAL == (6 * TicksPerSecond) \div 10
CONN_SPAWN_INTERVAL == (4 * TicksPerSecond) \div 10
NODE_LIFETIME_MIN == 10 * TicksPerSecond
NODE_LIFETIME_MAX == 22 * TicksPerSecond
CONN_FADE_IN == (15 * TicksPerSecond) \div 10
MIN_CONN_LIFE == 2 * TicksPerSecond
MIN_NODE_DIST == (8 * PosScale) \div 100
SPAWN_ATTEMPTS == 8
SEED_ATTEMPTS == 10
LERP_DIVISOR == 40
\* MAX_LINE_ALPHA = 0.38 and MAX_GLOW_ALPHA = 0.14, in hundredths;
\* DIST_REF = 0.25 = 1 / DIST_REF_INV
MAX_LINE_ALPHA == 38
MAX_GLOW_ALPHA == 14
DIST_REF_INV == 4

\* A risk score: null / undefined, or a number.
NULL == [null |-> TRUE, value |-> 0]
Num(v) == [null |-> FALSE, value |-> v]

(* ------------------------------------------------------------------ *)
(* Colour utilities                                                    *)
(* ------------------------------------------------------------------ *)
\* The literal [60, 62, 70] of the array COLOR_NEUTRAL
NEUTRAL_RGB == <<60 * ColorScale, 62 * ColorScale, 70 * ColorScale>>

\* Mutant: no copy is made, the same object is handed back.
slice_Alias(heap, ref, fresh) == [ref |-> ref, heap |-> heap]

\* The module-level arrays are mutable objects: `arrays` maps an object to its
\* contents, and a variable holding an array holds the object's name.
\* slice(): a new object `fresh` with the contents of `ref`.
slice(heap, ref, fresh) == [ref |-> fresh, heap |-> (fresh :> heap[ref]) @@ heap]

\* Mutant: the colours are attached to the scores in the opposite order.
COLOR_STOPS_Inverted ==
  << [score |-> 0,   color |-> <<184 * ColorScale, 58 * ColorScale, 42 * ColorScale>>],
     [score |-> 25,  color |-> <<196 * ColorScale, 100 * ColorScale, 42 * ColorScale>>],
     [score |-> 40,  color |-> <<196 * ColorScale, 154 * ColorScale, 58 * ColorScale>>],
     [score |-> 60,  color |-> <<138 * ColorScale, 138 * ColorScale, 58 * ColorScale>>],
     [score |-> 75,  color |-> <<58 * ColorScale, 138 * ColorScale, 92 * ColorScale>>],
     [score |-> 100, color |-> <<58 * ColorScale, 138 * ColorScale, 92 * ColorScale>>] >>

COLOR_STOPS ==
  << [score |-> 0,   color |-> <<58 * ColorScale, 138 * ColorScale, 92 * ColorScale>>],
     [score |-> 25,  color |-> <<58 * ColorScale, 138 * ColorScale, 92 * ColorScale>>],
     [score |-> 40,  color |-> <<138 * ColorScale, 138 * ColorScale, 58 * ColorScale>>],
     [score |-> 60,  color |-> <<196 * ColorScale, 154 * ColorScale, 58 * ColorScale>>],
     [score |-> 75,  color |-> <<196 * ColorScale, 100 * ColorScale, 42 * ColorScale>>],
     [score |-> 100, color |-> <<184 * ColorScale, 58 * ColorScale, 42 * ColorScale>>] >>

Max(a, b) == IF a >= b THEN a ELSE b
Min(a, b) == IF a <= b THEN a ELSE b
Abs(a) == IF a >= 0 THEN a ELSE -a

\* Integer quotient rounded toward zero (the fixed-point image of a product
\* of doubles).
Quot(a, b) == IF a >= 0 THEN a \div b ELSE -((-a) \div b)

\* Mutant: the lower limit is not applied.
clamp_NoLower(v, lo, hi) == Min(hi, v)

clamp(v, lo, hi) == Max(lo, Min(hi, v))

\* Mutant: the fraction is taken over b.score instead of b.score - a.score.
RECURSIVE stopSearch_WrongT(_, _)
stopSearch_WrongT(s, i) ==
  IF i >= Len(COLOR_STOPS)
  THEN COLOR_STOPS[Len(COLOR_STOPS)].color
  ELSE LET a == COLOR_STOPS[i]
           b == COLOR_STOPS[i + 1]
       IN IF s >= a.score /\ s <= b.score
          THEN [ch \in 1..3 |->
                  a.color[ch] + Quot((b.color[ch] - a.color[ch]) * (s - a.score), b.score)]
          ELSE stopSearch_WrongT(s, i + 1)

RECURSIVE stopSearch(_, _)
stopSearch(s, i) ==
  IF i >= Len(COLOR_STOPS)
  THEN COLOR_STOPS[Len(COLOR_STOPS)].color
  ELSE LET a == COLOR_STOPS[i]
           b == COLOR_STOPS[i + 1]
       IN IF s >= a.score /\ s <= b.score
          THEN [ch \in 1..3 |->
                  a.color[ch]
                  + Quot((b.color[ch] - a.color[ch]) * (s - a.score),
                         b.score - a.score)]
          ELSE stopSearch(s, i + 1)

\* The contents of the array getTargetColor returns
getTargetColor(heap, score) ==
  IF score.null
  THEN LET t == slice(heap, "COLOR_NEUTRAL", "target") IN t.heap[t.ref]
  ELSE stopSearch(clamp(score.value, 0, 100), 1)

\* Mutant: the current colour is set to the target.
lerpRGB_Jump(heap, current, target) == [heap EXCEPT ![current] = target]

\* Mutant: a rate above 1 (1.5): every step passes the target.
lerpRGB_Overshoot(heap, current, target) ==
  [heap EXCEPT ![current] =
     [ch \in 1..3 |-> heap[current][ch] + Quot(3 * (target[ch] - heap[current][ch]), 2)]]

\* Mutant: half the rate (0.0125).
lerpRGB_Slow(heap, current, target) ==
  [heap EXCEPT ![current] =
     [ch \in 1..3 |-> heap[current][ch]
                        + Quot(target[ch] - heap[current][ch], 2 * LERP_DIVISOR)]]

\* lerpRGB(current, target, 0.025): writes the object `current`
lerpRGB(heap, current, target) ==
  [heap EXCEPT ![current] =
     [ch \in 1..3 |-> heap[current][ch] + Quot(target[ch] - heap[current][ch], LERP_DIVISOR)]]

(* ------------------------------------------------------------------ *)
(* Lifecycle opacity, as the exact fraction num/den with den > 0       *)
(* ------------------------------------------------------------------ *)
\* Mutant: the test t > 1 is missing.
lifecycleOpacity_NoExpiry(age, lifetime) ==
  IF age < 0 THEN [num |-> 0, den |-> 2 * lifetime]
  ELSE IF 10 * age < lifetime THEN [num |-> 20 * age, den |-> 2 * lifetime]
  ELSE IF 10 * age < 6 * lifetime THEN [num |-> 2 * lifetime, den |-> 2 * lifetime]
  ELSE [num |-> 5 * (lifetime - age), den |-> 2 * lifetime]

lifecycleOpacity(age, lifetime) ==
  IF age < 0 \/ age > lifetime THEN [num |-> 0, den |-> 2 * lifetime]
  ELSE IF 10 * age < lifetime THEN [num |-> 20 * age, den |-> 2 * lifetime]
  ELSE IF 10 * age < 6 * lifetime THEN [num |-> 2 * lifetime, den |-> 2 * lifetime]
  ELSE [num |-> 5 * (lifetime - age), den |-> 2 * lifetime]

\* op < p/q
OpBelow(op, p, q) == op.num * q < p * op.den

(* ------------------------------------------------------------------ *)
(* Inputs: the values drawn for Math.random() and by the environment   *)
(* ------------------------------------------------------------------ *)
\* One createNode draw: position, lifetime in [10 s, 22 s), radius (tenths of
\* a pixel) in [1.5, 3), drift in [-0.004, 0.004) per second.
ShapeA == [x |-> 1000, y |-> 1000, lifetime |-> 100, radius |-> 15, driftX |-> 0,  driftY |-> 0]
ShapeB == [x |-> 1600, y |-> 1000, lifetime |-> 219, radius |-> 20, driftX |-> 3,  driftY |-> 0]
ShapeC == [x |-> 6000, y |-> 6000, lifetime |-> 150, radius |-> 29, driftX |-> -3, driftY |-> 3]

\* The draws of the consecutive createNode calls of one spawn: the first k
\* calls draw c, the later ones draw d.
Stream(c, d, k) == [i \in 1..(SEED_ATTEMPTS + 1) |-> IF i <= k THEN c ELSE d]
SpawnStreams ==
  { Stream(ShapeA, ShapeA, 0), Stream(ShapeC, ShapeC, 0), Stream(ShapeB, ShapeC, 1) }
\* One iteration of seedNodes: stagger = -(Math.random() * NODE_LIFETIME_MAX * 0.5),
\* in (-11 s, 0], and the draws of its createNode calls.
SeedDraw(stagger, draws) == [stagger |-> stagger, draws |-> draws]
SeedDraws ==
  { SeedDraw(-75, Stream(ShapeA, ShapeA, 0)),
    SeedDraw(-105, Stream(ShapeA, ShapeA, 0)),
    SeedDraw(-75, Stream(ShapeC, ShapeC, 0)),
    SeedDraw(-75, Stream(ShapeB, ShapeC, 1)),
    SeedDraw(-105, Stream(ShapeA, ShapeB, SEED_ATTEMPTS)) }
\* -(Math.random() * 6), in (-6 s, 0]
ConnStaggers == {-30}
\* Time between two frame callbacks (a throttled or hidden tab delays them).
FrameGaps == {10, 219}
\* Frame times that meet a node at the end of its fade-out and at the very
\* end of its life
PaintGaps == {10, 55}
\* canvas.clientWidth / clientHeight
ClientSizes == { <<0, 0>>, <<1200, 0>>, <<1200, 800>> }
\* Values written to canvasRiskScore
Scores == {NULL, Num(10), Num(90)}
\* Arguments of getTargetColor
ScoreInputs == {NULL} \cup { Num(v) : v \in (0 - ScoreMargin)..(100 + ScoreMargin) }
\* Arguments of lifecycleOpacity: lifetimes, and for each the ages from before
\* birth to after expiry
OpacityLifetimes == {1, 10, NODE_LIFETIME_MIN, 150, NODE_LIFETIME_MAX - 1}
OpacityArgs ==
  { <<age, lifetime>> \in ((0 - AgeMargin)..(NODE_LIFETIME_MAX + AgeMargin)) \X OpacityLifetimes :
      age <= lifetime + AgeMargin }
\* Scores written between colour steps: none, below the scale, inside a
\* bracket, above the scale
ColorScores == { NULL, Num(0 - ScoreMargin), Num(50), Num(100 + ScoreMargin) }
\* Colours the smoothing starts from and moves to
StartColors == {NEUTRAL_RGB} \cup { COLOR_STOPS[i].color : i \in 1..Len(COLOR_STOPS) }

(* ------------------------------------------------------------------ *)
(* State                                                               *)
(* ------------------------------------------------------------------ *)
VARIABLES
  pc,                   \* position in the start-up script (app.js 1718-1724)
  seedI,                \* seedNodes: loop variable i
  attempts,             \* seedConnections: attempts left
  spawned,              \* seedConnections: connections added
  client,               \* canvas client size <<clientWidth, clientHeight>>
  w, h,
  prefersReducedMotion,
  canvasRiskScore,
  scoreWrites,          \* number of writes of canvasRiskScore so far
  arrays,               \* contents of the array objects
  currentColor,         \* the object the variable currentColor holds
  targetColor,          \* render: the array assigned to targetColor
  nextId,
  nodes,
  connections,
  nodeMap,
  lastNodeSpawn,
  lastConnSpawn,
  now,                  \* elapsed computed by the latest frame callback
  frameCount,           \* number of frame callbacks run so far
  ev,                   \* what the latest step did (history)
  isLoading,
  allSlides,            \* the cards of the carousel
  carouselIndex,
  carouselAnimating,
  timers,               \* pending setTimeout callbacks, in the order they were set
  analyses,             \* number of analyses run so far
  rafPending,           \* pending requestAnimationFrame(render) callbacks
  stockData,            \* the latest fetchStockData call: its requests and its promise
  currentTickers,       \* parseTickers(tickerInput.value) as of the latest refreshTickerUI
  analyzeBtnDisabled,   \* analyzeBtn.disabled
  resultsShown,         \* resultsSec.style.display is not "none"
  loggedInUser,
  portfolio,
  requests              \* pending registerUser / fetchUser / addToPortfolioRemote promises

vars == << pc, seedI, attempts, spawned, client, w, h, prefersReducedMotion,
           canvasRiskScore, scoreWrites, arrays, currentColor, targetColor, nextId, nodes,
           connections,
           nodeMap, lastNodeSpawn, lastConnSpawn, now, frameCount, ev,
           isLoading, allSlides, carouselIndex, carouselAnimating, timers, analyses,
           rafPending, stockData, currentTickers, analyzeBtnDisabled, resultsShown,
           loggedInUser, portfolio, requests >>

authVars == << loggedInUser, portfolio, requests >>
pageVars == << currentTickers, analyzeBtnDisabled, resultsShown, authVars >>
uiVars == << isLoading, allSlides, carouselIndex, carouselAnimating, timers, analyses,
             stockData, pageVars >>

poolVars == << nextId, nodes, connections, nodeMap >>
colorVars == << arrays, currentColor, targetColor >>

(* ------------------------------------------------------------------ *)
(* Network node functions                                              *)
(* ------------------------------------------------------------------ *)
\* resize(): the new <<w, h>>, given the client size and the old <<w, h>>
resize(cl, oldW, oldH) == IF cl[1] = 0 \/ cl[2] = 0 THEN <<oldW, oldH>> ELSE cl

\* Mutant: the counter is read without being advanced (nextId for nextId++),
\* so every node gets the counter's first value.
createNode_NoIncrement(id, time, draw) ==
  [ id |-> 0, x |-> draw.x, y |-> draw.y, birthTime |-> time,
    lifetime |-> draw.lifetime, radius |-> draw.radius,
    driftX |-> draw.driftX, driftY |-> draw.driftY ]

\* createNode; id: the value of nextId before nextId++
createNode(id, time, draw) ==
  [ id |-> id, x |-> draw.x, y |-> draw.y, birthTime |-> time,
    lifetime |-> draw.lifetime, radius |-> draw.radius,
    driftX |-> draw.driftX, driftY |-> draw.driftY ]

RECURSIVE isTooCloseFrom(_, _, _, _, _)
isTooCloseFrom(ns, x, y, elapsed, i) ==
  IF i > Len(ns) THEN FALSE
  ELSE LET n == ns[i]
           age == elapsed - n.birthTime
           nx == n.x + n.driftX * age
           ny == n.y + n.driftY * age
           dx == x - nx
           dy == y - ny
       IN IF age > n.lifetime THEN isTooCloseFrom(ns, x, y, elapsed, i + 1)
          ELSE IF dx * dx + dy * dy < MIN_NODE_DIST * MIN_NODE_DIST THEN TRUE
          ELSE isTooCloseFrom(ns, x, y, elapsed, i + 1)

\* Mutant: no candidate is taken for too close.
isTooClose_Never(ns, x, y, elapsed) == FALSE

isTooClose(ns, x, y, elapsed) == isTooCloseFrom(ns, x, y, elapsed, 1)

Pool(ns, nm, nid) == [nodes |-> ns, nodeMap |-> nm, nextId |-> nid]

RECURSIVE spawnAttempt(_, _, _, _, _, _)
spawnAttempt(ns, nm, nid, time, draws, attempt) ==
  IF attempt >= SPAWN_ATTEMPTS THEN Pool(ns, nm, nid)
  ELSE LET n == createNode(nid, time, draws[attempt + 1])
       IN IF ~isTooClose(ns, n.x, n.y, time)
          THEN Pool(Append(ns, n), (n.id :> n) @@ nm, nid + 1)
          ELSE spawnAttempt(ns, nm, nid + 1, time, draws, attempt + 1)

\* Mutant: the capacity test is off by one (> instead of >=).
spawnNode_OffByOne(ns, nm, nid, time, draws) ==
  IF Len(ns) > MAX_NODES THEN Pool(ns, nm, nid)
  ELSE spawnAttempt(ns, nm, nid, time, draws, 0)

spawnNode(ns, nm, nid, time, draws) ==
  IF Len(ns) >= MAX_NODES THEN Pool(ns, nm, nid)
  ELSE spawnAttempt(ns, nm, nid, time, draws, 0)

\* Mutant: the entry of the removed node stays in nodeMap.
removeNode_KeepEntry(ns, nm, idx) ==
  [ nodes |-> SubSeq(ns, 1, idx - 1) \o SubSeq(ns, idx + 1, Len(ns)),
    nodeMap |-> nm ]

removeNode(ns, nm, idx) ==
  [ nodes |-> SubSeq(ns, 1, idx - 1) \o SubSeq(ns, idx + 1, Len(ns)),
    nodeMap |-> [k \in (DOMAIN nm) \ {ns[idx].id} |-> nm[k]] ]

RECURSIVE connectionExistsFrom(_, _, _, _)
connectionExistsFrom(cs, idA, idB, i) ==
  IF i > Len(cs) THEN FALSE
  ELSE IF (cs[i].idA = idA /\ cs[i].idB = idB) \/ (cs[i].idA = idB /\ cs[i].idB = idA)
       THEN TRUE
       ELSE connectionExistsFrom(cs, idA, idB, i + 1)

\* Mutant: only the stored endpoint order is compared.
connectionExists_OneWay(cs, idA, idB) ==
  \E i \in 1..Len(cs) : cs[i].idA = idA /\ cs[i].idB = idB

connectionExists(cs, idA, idB) == connectionExistsFrom(cs, idA, idB, 1)

nodeAt(ns, i, elapsed) ==
  [ age |-> elapsed - ns[i].birthTime,
    op |-> lifecycleOpacity(elapsed - ns[i].birthTime, ns[i].lifetime) ]

\* Mutant: the origin itself is not skipped.
connCandidates_WithSelf(ns, cs, elapsed, aIdx) ==
  SelectSeq([i \in 1..Len(ns) |-> i],
            LAMBDA i : /\ ~OpBelow(nodeAt(ns, i, elapsed).op, 3, 10)
                       /\ ~connectionExists(cs, ns[aIdx].id, ns[i].id))

\* trySpawnConnection: the indices of the nodes pushed to `candidates`, in order
connCandidates(ns, cs, elapsed, aIdx) ==
  SelectSeq([i \in 1..Len(ns) |-> i],
            LAMBDA i : /\ i # aIdx
                       /\ ~OpBelow(nodeAt(ns, i, elapsed).op, 3, 10)
                       /\ ~connectionExists(cs, ns[aIdx].id, ns[i].id))

\* Mutant: the longer of the two remaining lifetimes is taken.
connLifeAt_Longer(ns, elapsed, aIdx, bIdx) ==
  Max(ns[aIdx].lifetime - (elapsed - ns[aIdx].birthTime),
      ns[bIdx].lifetime - (elapsed - ns[bIdx].birthTime))

\* Mutant: only the origin's remaining lifetime is taken.
connLifeAt_OriginOnly(ns, elapsed, aIdx, bIdx) ==
  ns[aIdx].lifetime - (elapsed - ns[aIdx].birthTime)

\* The lifetime of the connection trySpawnConnection would create between the
\* nodes at aIdx and bIdx
connLifeAt(ns, elapsed, aIdx, bIdx) ==
  Min(ns[aIdx].lifetime - (elapsed - ns[aIdx].birthTime),
      ns[bIdx].lifetime - (elapsed - ns[bIdx].birthTime))

\* Mutant of tryConnPair (below): the origin's opacity is not tested.
\* aIdx: (Math.random() * nodes.length) | 0, counted from 1.
\* pickIdx: the candidate the cumulative-weight draw stops at; every weight
\* exp(-dist / refPx) is positive, so the draw can stop at any candidate.
\* tryConnPair: <<>> when trySpawnConnection returns before it has chosen a
\* partner, else the indices <<a, chosen>>.
tryConnPair_NoOriginTest(ns, cs, elapsed, aIdx, pickIdx) ==
  IF Len(cs) >= MAX_CONNECTIONS THEN <<>>
  ELSE IF Len(ns) < 2 THEN <<>>
  ELSE LET candidates == connCandidates(ns, cs, elapsed, aIdx)
       IN IF Len(candidates) = 0 THEN <<>>
          ELSE <<aIdx, candidates[pickIdx]>>

\* Mutant: the connection cap is not tested.
tryConnPair_NoCap(ns, cs, elapsed, aIdx, pickIdx) ==
  IF Len(ns) < 2 THEN <<>>
  ELSE IF OpBelow(nodeAt(ns, aIdx, elapsed).op, 1, 2) THEN <<>>
  ELSE LET candidates == connCandidates(ns, cs, elapsed, aIdx)
       IN IF Len(candidates) = 0 THEN <<>>
          ELSE <<aIdx, candidates[pickIdx]>>

tryConnPair(ns, cs, elapsed, aIdx, pickIdx) ==
  IF Len(cs) >= MAX_CONNECTIONS THEN <<>>
  ELSE IF Len(ns) < 2 THEN <<>>
  ELSE IF OpBelow(nodeAt(ns, aIdx, elapsed).op, 1, 2) THEN <<>>
  ELSE LET candidates == connCandidates(ns, cs, elapsed, aIdx)
       IN IF Len(candidates) = 0 THEN <<>>
          ELSE <<aIdx, candidates[pickIdx]>>

\* Mutant: the minimum-lifetime test is missing.
trySpawnConnection_NoMinLife(ns, cs, elapsed, aIdx, pickIdx) ==
  LET pair == tryConnPair(ns, cs, elapsed, aIdx, pickIdx)
  IN IF pair = <<>> THEN cs
     ELSE Append(cs, [ idA |-> ns[pair[1]].id, idB |-> ns[pair[2]].id,
                       birthTime |-> elapsed,
                       lifetime |-> connLifeAt(ns, elapsed, pair[1], pair[2]) ])

trySpawnConnection(ns, cs, elapsed, aIdx, pickIdx) ==
  LET pair == tryConnPair(ns, cs, elapsed, aIdx, pickIdx)
  IN IF pair = <<>> THEN cs
     ELSE LET connLife == connLifeAt(ns, elapsed, pair[1], pair[2])
          IN IF connLife < MIN_CONN_LIFE THEN cs
             ELSE Append(cs, [ idA |-> ns[pair[1]].id, idB |-> ns[pair[2]].id,
                               birthTime |-> elapsed, lifetime |-> connLife ])

\* The draws trySpawnConnection can make in the given pools
ConnDraws(ns, cs, elapsed) ==
  IF Len(cs) >= MAX_CONNECTIONS \/ Len(ns) < 2 THEN { <<1, 1>> }
  ELSE { d \in (1..Len(ns)) \X (1..Len(ns)) :
           d[2] <= Max(1, Len(connCandidates(ns, cs, elapsed, d[1]))) }

(* ------------------------------------------------------------------ *)
(* Seeding                                                             *)
(* ------------------------------------------------------------------ *)
\* Mutant: no candidate is taken for too close.
seedTooCloseFrom_Never(ns, n, j) == FALSE

\* seedNodes: the tooClose loop, from index j on (static positions)
RECURSIVE seedTooCloseFrom(_, _, _)
seedTooCloseFrom(ns, n, j) ==
  IF j > Len(ns) THEN FALSE
  ELSE LET dx == n.x - ns[j].x
           dy == n.y - ns[j].y
       IN IF dx * dx + dy * dy < MIN_NODE_DIST * MIN_NODE_DIST THEN TRUE
          ELSE seedTooCloseFrom(ns, n, j + 1)

\* One iteration of the outer loop of seedNodes
RECURSIVE seedAttempt(_, _, _, _, _, _)
seedAttempt(ns, nm, nid, stagger, draws, attempt) ==
  IF attempt >= SEED_ATTEMPTS
  THEN LET fallback == createNode(nid, stagger, draws[attempt + 1])
       IN Pool(Append(ns, fallback), (fallback.id :> fallback) @@ nm, nid + 1)
  ELSE LET n == createNode(nid, stagger, draws[attempt + 1])
       IN IF ~seedTooCloseFrom(ns, n, 1)
          THEN Pool(Append(ns, n), (n.id :> n) @@ nm, nid + 1)
          ELSE seedAttempt(ns, nm, nid + 1, stagger, draws, attempt + 1)

seedNodesIter(ns, nm, nid, stagger, draws) == seedAttempt(ns, nm, nid, stagger, draws, 0)

\* One iteration of the while loop of seedConnections, after attempts--.
\* accept: the outcome of  !(Math.random() > prob); prob = exp(-dist / refPx)
\* is 1 for coincident nodes, which are then always accepted.
seedConnectionsIter(ns, cs, aIdx, bIdx, accept, stagger) ==
  IF aIdx = bIdx THEN cs
  ELSE IF connectionExists(cs, ns[aIdx].id, ns[bIdx].id) THEN cs
  ELSE LET dx == ns[aIdx].x - ns[bIdx].x
           dy == ns[aIdx].y - ns[bIdx].y
           aAge == -(ns[aIdx].birthTime)
           aRemaining == ns[aIdx].lifetime - aAge
           bRemaining == ns[bIdx].lifetime - (-(ns[bIdx].birthTime))
           connLife == Min(aRemaining, bRemaining)
       IN IF ~accept /\ dx * dx + dy * dy > 0 THEN cs
          ELSE IF connLife < MIN_CONN_LIFE THEN cs
          ELSE Append(cs, [ idA |-> ns[aIdx].id, idB |-> ns[bIdx].id,
                            birthTime |-> stagger, lifetime |-> connLife ])

(* ------------------------------------------------------------------ *)
(* Pruning (render, app.js 1626-1639)                                  *)
(* ------------------------------------------------------------------ *)
RECURSIVE pruneNodesFrom(_, _, _, _)
pruneNodesFrom(ns, nm, elapsed, i) ==
  IF i < 1 THEN [nodes |-> ns, nodeMap |-> nm]
  ELSE IF elapsed - ns[i].birthTime > ns[i].lifetime
       THEN LET r == removeNode(ns, nm, i)
            IN pruneNodesFrom(r.nodes, r.nodeMap, elapsed, i - 1)
       ELSE pruneNodesFrom(ns, nm, elapsed, i - 1)

\* Mutant: the loop stops before index 0 (i > 0 instead of i >= 0).
pruneNodes_SkipFirst(ns, nm, elapsed) ==
  IF Len(ns) = 0 THEN [nodes |-> ns, nodeMap |-> nm]
  ELSE LET r == pruneNodesFrom(Tail(ns), nm, elapsed, Len(ns) - 1)
       IN [nodes |-> <<ns[1]>> \o r.nodes, nodeMap |-> r.nodeMap]

pruneNodes(ns, nm, elapsed) == pruneNodesFrom(ns, nm, elapsed, Len(ns))

isDeadConnection(c, nm, elapsed) ==
  \/ elapsed - c.birthTime > c.lifetime
  \/ c.idA \notin DOMAIN nm
  \/ c.idB \notin DOMAIN nm

RECURSIVE pruneConnectionsFrom(_, _, _, _)
pruneConnectionsFrom(cs, nm, elapsed, ci) ==
  IF ci < 1 THEN cs
  ELSE IF isDeadConnection(cs[ci], nm, elapsed)
       THEN pruneConnectionsFrom(SubSeq(cs, 1, ci - 1) \o SubSeq(cs, ci + 1, Len(cs)),
                                 nm, elapsed, ci - 1)
       ELSE pruneConnectionsFrom(cs, nm, elapsed, ci - 1)

\* Mutant: the loop stops before index 0 (ci > 0 instead of ci >= 0).
pruneConnections_SkipFirst(cs, nm, elapsed) ==
  IF Len(cs) = 0 THEN cs
  ELSE <<cs[1]>> \o pruneConnectionsFrom(Tail(cs), nm, elapsed, Len(cs) - 1)

pruneConnections(cs, nm, elapsed) == pruneConnectionsFrom(cs, nm, elapsed, Len(cs))

(* ------------------------------------------------------------------ *)
(* Painting (render, app.js 1641-1713)                                 *)
(* ------------------------------------------------------------------ *)
\* Math.sqrt, rounded down to the unit
RECURSIVE isqrtFrom(_, _, _)
isqrtFrom(n, lo, hi) ==
  IF lo >= hi THEN lo
  ELSE LET mid == (lo + hi + 1) \div 2
       IN IF mid * mid <= n THEN isqrtFrom(n, mid, hi) ELSE isqrtFrom(n, lo, mid - 1)

isqrt(n) == isqrtFrom(n, 0, 46340)

\* exp(-k) in millionths, k = 0..7
EXP_TABLE == <<1000000, 367879, 135335, 49787, 18316, 6738, 2479, 912>>

\* Math.exp(-q) in millionths, for q >= 0 given in thousandths: exp(-k) from
\* the table times the Taylor polynomial of degree 5 of the fractional part
\* (accurate to about 1 %).
expNeg(qm) ==
  LET k == qm \div 1000
      f == qm % 1000
      poly == 1000000 - 1000 * f + (f * f) \div 2 - (f * f * f) \div 6000
              + (((f * f) \div 1000) * ((f * f) \div 1000)) \div 24
              - (((f * f * f) \div 1000) * ((f * f) \div 1000)) \div 120000
  IN IF k >= Len(EXP_TABLE) THEN 0
     ELSE (EXP_TABLE[k + 1] * (poly \div 1000)) \div 1000

\* Math.min of two opacities
OpMin(x, y) == IF x.num * y.den <= y.num * x.den THEN x ELSE y

\* posMap: for every node with positive opacity, its position (1/10000 px)
\* and opacity
paintPosMap(ns, elapsed, cw, ch) ==
  LET shown == { i \in 1..Len(ns) :
                   lifecycleOpacity(elapsed - ns[i].birthTime, ns[i].lifetime).num > 0 }
  IN [ id \in { ns[i].id : i \in shown } |->
         LET n == ns[CHOOSE i \in shown : ns[i].id = id]
             age == elapsed - n.birthTime
         IN [ px |-> (n.x + n.driftX * age) * cw,
              py |-> (n.y + n.driftY * age) * ch,
              opacity |-> lifecycleOpacity(age, n.lifetime),
              r |-> n.radius ] ]

\* fadeIn = clamp(connAge / CONN_FADE_IN, 0, 1)
connFadeIn(connAge) == [num |-> clamp(connAge, 0, CONN_FADE_IN), den |-> CONN_FADE_IN]

\* Mutant: the endpoints' opacities do not gate the connection.
connOpOf_NoGate(conn, pm, elapsed) == connFadeIn(elapsed - conn.birthTime)

\* Mutant: the fade-in ramp multiplies the endpoints' gate.
connOpOf_Product(conn, pm, elapsed) ==
  LET f == connFadeIn(elapsed - conn.birthTime)
      g == OpMin(pm[conn.idA].opacity, pm[conn.idB].opacity)
  IN [num |-> f.num * g.num, den |-> f.den * g.den]

\* connOp = Math.min(fadeIn, Math.min(pa.opacity, pb.opacity))
connOpOf(conn, pm, elapsed) ==
  OpMin(connFadeIn(elapsed - conn.birthTime),
        OpMin(pm[conn.idA].opacity, pm[conn.idB].opacity))

\* distFade = Math.exp(-ldist / refPx) in millionths; distances in tenths of
\* a pixel
distFadeOf(pa, pb, cw, ch) ==
  LET ldx == Quot(pa.px - pb.px, 1000)
      ldy == Quot(pa.py - pb.py, 1000)
      ldist == isqrt(ldx * ldx + ldy * ldy)
      refPx == isqrt(100 * (cw * cw + ch * ch)) \div DIST_REF_INV
  IN IF refPx = 0 THEN 0          \* -ldist / 0 is -Infinity
     ELSE expNeg((1000 * ldist) \div refPx)

\* One iteration of the loop that draws the connections: <<>> when it
\* continues without a stroke, else the stroke; lineAlpha in millionths.
strokeOf(conn, pm, elapsed, cw, ch) ==
  IF conn.idA \notin DOMAIN pm \/ conn.idB \notin DOMAIN pm THEN <<>>
  ELSE LET connOp == connOpOf(conn, pm, elapsed)
           distFade == distFadeOf(pm[conn.idA], pm[conn.idB], cw, ch)
           lineAlpha == ((((distFade * MAX_LINE_ALPHA) \div 100) * connOp.num) \div connOp.den)
       IN IF connOp.num <= 0 THEN <<>>
          ELSE IF lineAlpha < 3000 THEN <<>>
          ELSE << [ idA |-> conn.idA, idB |-> conn.idB, connOp |-> connOp,
                    distFade |-> distFade, lineAlpha |-> lineAlpha,
                    alpha |-> (lineAlpha + 500) \div 1000 ] >>   \* lineAlpha.toFixed(3)

RECURSIVE drawConnectionsFrom(_, _, _, _, _, _)
drawConnectionsFrom(cs, pm, elapsed, cw, ch, li) ==
  IF li > Len(cs) THEN <<>>
  ELSE strokeOf(cs[li], pm, elapsed, cw, ch)
         \o drawConnectionsFrom(cs, pm, elapsed, cw, ch, li + 1)

\* The nodes drawn with a glow: glowAlpha = opacity * MAX_GLOW_ALPHA > 0.003
drawGlows(pm) ==
  { id \in DOMAIN pm : pm[id].opacity.num * MAX_GLOW_ALPHA * 10 > 3 * pm[id].opacity.den }

\* What render paints, from the fillRect to the last dot
paint(ns, cs, elapsed, cw, ch) ==
  LET pm == paintPosMap(ns, elapsed, cw, ch)
  IN [ cleared |-> TRUE,
       posMap |-> pm,
       strokes |-> drawConnectionsFrom(cs, pm, elapsed, cw, ch, 1),
       glows |-> drawGlows(pm),
       dots |-> DOMAIN pm ]

\* The stars generateStars() made (two of the STAR_COUNT): baseAlpha in
\* thousandths, STAR_BASE_ALPHA * (0.4 .. 1.0); sin: the value of Math.sin in
\* the twinkle of this frame, in thousandths.
STARS ==
  << [ baseAlpha |-> 100, twinkle |-> TRUE, sin |-> -1000 ],
     [ baseAlpha |-> 250, twinkle |-> FALSE, sin |-> 0 ] >>

\* drawStars: alpha of one star in thousandths
starAlpha(st, prm) ==
  IF st.twinkle /\ ~prm
  THEN (st.baseAlpha * (350 + (650 * (st.sin + 1000)) \div 2000)) \div 1000
  ELSE st.baseAlpha

\* drawStars: the fills it issues, in order
RECURSIVE drawStarsFrom(_, _, _)
drawStarsFrom(sts, prm, i) ==
  IF i > Len(sts) THEN <<>>
  ELSE (IF starAlpha(sts[i], prm) < 10 THEN <<>>
        ELSE << [ op |-> "star", id |-> i ] >>)
       \o drawStarsFrom(sts, prm, i + 1)

\* One ctx.stroke() per stroke, in the order of the connection loop
lineOps(strokes) ==
  [ k \in 1..Len(strokes) |-> [ op |-> "line", id |-> k ] ]

\* Mutant: the core dot is filled before the glow.
RECURSIVE drawNodeOps_DotFirst(_, _)
drawNodeOps_DotFirst(pic, ids) ==
  IF ids = {} THEN <<>>
  ELSE LET id == CHOOSE i \in ids : \A j \in ids : i <= j
       IN << [ op |-> "dot", id |-> id ] >>
          \o (IF id \in pic.glows THEN << [ op |-> "glow", id |-> id ] >> ELSE <<>>)
          \o drawNodeOps_DotFirst(pic, ids \ {id})

\* "Draw nodes": for each key of posMap (Object.keys lists integer keys in
\* ascending order) the glow, when glowAlpha > 0.003, and then the core dot
RECURSIVE drawNodeOps(_, _)
drawNodeOps(pic, ids) ==
  IF ids = {} THEN <<>>
  ELSE LET id == CHOOSE i \in ids : \A j \in ids : i <= j
       IN (IF id \in pic.glows THEN << [ op |-> "glow", id |-> id ] >> ELSE <<>>)
          \o << [ op |-> "dot", id |-> id ] >>
          \o drawNodeOps(pic, ids \ {id})

\* The canvas operations of one frame that paints the picture pic, in the
\* order render issues them
paintOps(pic, prm) ==
  << [ op |-> "fill", id |-> 0 ] >>
  \o drawStarsFrom(STARS, prm, 1)
  \o lineOps(pic.strokes)
  \o drawNodeOps(pic, pic.dots)

(* ------------------------------------------------------------------ *)
(* fetchStockData (app.js 170-265)                                     *)
(* ------------------------------------------------------------------ *)
\* A string is the sequence of its characters.
\* String.prototype.trim
RECURSIVE trimStart(_)
trimStart(str) == IF str # <<>> /\ str[1] = " " THEN trimStart(Tail(str)) ELSE str

RECURSIVE trimEnd(_)
trimEnd(str) ==
  IF str # <<>> /\ str[Len(str)] = " " THEN trimEnd(SubSeq(str, 1, Len(str) - 1)) ELSE str

trim(str) == trimEnd(trimStart(str))

\* String.prototype.toUpperCase on the letters of TickerChars
toUpperCase(str) ==
  [i \in 1..Len(str) |-> CASE str[i] = "a" -> "A"
                           [] str[i] = "m" -> "M"
                           [] OTHER -> str[i]]

\* tickerList: (Array.isArray(tickers) ? tickers : [tickers])
\*   .map(t => (t || "").trim().toUpperCase()).filter(Boolean)
tickerListOf(tickers) ==
  LET list == IF tickers.isArray THEN tickers.array ELSE << tickers.string >>
      mapped == [i \in 1..Len(list) |-> toUpperCase(trim(list[i]))]
  IN SelectSeq(mapped, LAMBDA t : t # <<>>)

\* JSON values a response body parses to
JNull == [ json |-> "null" ]
JNumber == [ json |-> "number" ]
JArray(items) == [ isArray |-> TRUE, items |-> items ]
NotArray == [ isArray |-> FALSE, items |-> <<>> ]
JObject(results, errors) == [ json |-> "object", results |-> results, errors |-> errors ]

\* reason.message of a rejected request
Message(label, text, status) == [ label |-> label, text |-> text, status |-> status ]

\* A promise of Promise.allSettled's list, pending or settled
Pending == [ status |-> "pending" ]
Fulfilled(value) == [ status |-> "fulfilled", value |-> value ]
Rejected(message) == [ status |-> "rejected", reason |-> [ message |-> message ] ]

\* fetchJson(url, label) for an outcome of the request: fetch rejects
\* (network), response.ok is false (status), response.json() rejects
\* (syntax), or the body parses
fetchJson(label, outcome) ==
  CASE outcome.kind = "network" -> Rejected(Message("", "Failed to fetch", 0))
    [] outcome.kind = "status" -> Rejected(Message(label, "HTTP status", outcome.status))
    [] outcome.kind = "syntax" -> Rejected(Message("", "Unexpected token", 0))
    [] outcome.kind = "ok" -> Fulfilled(outcome.body)

\* .then(function (data) { return { results: [data], errors: [] }; })
wrapSingle(promise) ==
  IF promise.status = "fulfilled"
  THEN Fulfilled([ results |-> << promise.value >>, errors |-> <<>> ])
  ELSE promise

\* tickerList.map(t => ({ ticker: t, error: reason.message }))
errorsFor(list, promise) ==
  [i \in 1..Len(list) |-> [ ticker |-> list[i], error |-> promise.reason.message ]]

\* Array.isArray(d.results) ? d.results : [] (and d.errors); d.results of a
\* value that is not an object is undefined
arrayOr(d, field) ==
  IF d.json = "object" /\ d[field].isArray THEN d[field].items ELSE <<>>

\* The two arrays the multi-ticker callback takes from one settled request,
\* or threw: reading a property of null throws a TypeError
takeBatch(list, promise) ==
  IF promise.status = "fulfilled"
  THEN IF promise.value.json = "null"
       THEN [ threw |-> TRUE, results |-> <<>>, errors |-> <<>> ]
       ELSE [ threw |-> FALSE, results |-> arrayOr(promise.value, "results"),
              errors |-> arrayOr(promise.value, "errors") ]
  ELSE [ threw |-> FALSE, results |-> <<>>, errors |-> errorsFor(list, promise) ]

\* The same for the single-ticker callback
takeSingle(list, promise) ==
  IF promise.status = "fulfilled"
  THEN [ threw |-> FALSE, results |-> promise.value.results, errors |-> promise.value.errors ]
  ELSE [ threw |-> FALSE, results |-> <<>>, errors |-> errorsFor(<< list[1] >>, promise) ]

\* The callback of Promise.allSettled([...]).then: what the promise
\* fetchStockData returned settles to
settleStockData(list, settled) ==
  LET risk == IF Len(list) > 1 THEN takeBatch(list, settled[1]) ELSE takeSingle(list, settled[1])
      health == IF Len(list) > 1 THEN takeBatch(list, settled[2]) ELSE takeSingle(list, settled[2])
  IN IF risk.threw \/ health.threw
     THEN Rejected(Message("", "Cannot read properties of null", 0))
     ELSE Fulfilled([ riskResults |-> risk.results, riskErrors |-> risk.errors,
                      healthResults |-> health.results, healthErrors |-> health.errors ])

\* No call of fetchStockData yet
NoStockData ==
  [ called |-> FALSE, tickerList |-> <<>>, settled |-> <<>>, promise |-> Pending,
    handled |-> FALSE ]

\* fetchStockData(tickers), up to the return of the promise; handled: the
\* caller's then-callback has run
fetchStockData(tickers) ==
  LET list == tickerListOf(tickers)
  IN IF Len(list) = 0
     THEN [ called |-> TRUE, tickerList |-> list, settled |-> <<>>,
            promise |-> Fulfilled([ riskResults |-> <<>>, riskErrors |-> <<>>,
                                    healthResults |-> <<>>, healthErrors |-> <<>> ]),
            handled |-> FALSE ]
     ELSE [ called |-> TRUE, tickerList |-> list, settled |-> << Pending, Pending >>,
            promise |-> Pending, handled |-> FALSE ]

(* ------------------------------------------------------------------ *)
(* History record of the latest step                                   *)
(* ------------------------------------------------------------------ *)
NoEv(kind) ==
  [ kind |-> kind,
    spawnCalled |-> FALSE,      \* spawnNode was called
    spawnAtCap |-> FALSE,       \* ... with nodes.length >= MAX_NODES
    spawnChanged |-> FALSE,     \* ... and changed nodes, nodeMap, nextId or connections
    connCalled |-> FALSE,       \* trySpawnConnection / a seedConnections iteration ran
    connLife |-> <<>>,          \* <<connLife>> when it got as far as computing it
    connAdded |-> FALSE,        \* it changed the connection pool
    prunedNodes |-> {},         \* the nodes the frame removed
    prunedConns |-> {},         \* the connections the frame removed
    painted |-> [ cleared |-> FALSE, posMap |-> <<>>, strokes |-> <<>>,
                  glows |-> {}, dots |-> {} ],    \* what the frame painted
    ops |-> <<>>,               \* the canvas operations of the frame, in order
    steps |-> <<>>,             \* the steps of render() run so far, one at a time
    writes |-> <<>>,            \* the values written to canvasRiskScore since the
                                \* last frame that read it
    args |-> <<>>,              \* arguments of a function called on its own
    ret |-> <<>> ]              \* ... and the value it returned

\* The writes to canvasRiskScore no frame has read yet: a frame that ran
\* render's colour step has read the variable, a deferred frame has not.
writesPending == IF ev.kind = "frame" THEN <<>> ELSE ev.writes

Range(f) == { f[i] : i \in DOMAIN f }

(* ------------------------------------------------------------------ *)
(* Results carousel (app.js 713-781, 1045-1099)                        *)
(* ------------------------------------------------------------------ *)
\* String(n) for an integer n >= 0: its decimal digits
RECURSIVE String(_)
String(n) == IF n < 10 THEN << n >> ELSE Append(String(n \div 10), n % 10)

\* parseFloat of a string of decimal digits
RECURSIVE parseFloat(_)
parseFloat(str) ==
  IF Len(str) = 1 THEN str[1]
  ELSE 10 * parseFloat(SubSeq(str, 1, Len(str) - 1)) + str[Len(str)]

\* buildStockCard + setAttribute("data-risk", String(score || 0)); the field
\* score keeps the result the card was built from
stockCard(score) ==
  [ error |-> FALSE, score |-> score,
    dataRisk |-> String(IF score.null \/ score.value = 0 THEN 0 ELSE score.value) ]

\* buildErrorCard + setAttribute("data-risk", "")
errorCard == [ error |-> TRUE, score |-> NULL, dataRisk |-> <<>> ]

\* renderResults: the cards for these stocks (their scores) and errors
buildSlides(stocks, errors) ==
  [i \in 1..Len(stocks) |-> stockCard(stocks[i])] \o [e \in 1..errors |-> errorCard]

\* renderResults(stocks, errors): the new allSlides, the first slide shown and
\* the rest hidden; gen tells the elements of one rendering from those of
\* another
renderResults(stocks, errors, gen) ==
  LET cards == buildSlides(stocks, errors)
  IN [i \in 1..Len(cards) |->
        [ error |-> cards[i].error, score |-> cards[i].score, dataRisk |-> cards[i].dataRisk,
          gen |-> gen, display |-> (i = 1) ]]

\* Mutant: the first slide's score is taken whatever the index.
setCanvasColorForSlide_First(slides, idx) ==
  IF Len(slides) = 0 THEN NULL
  ELSE IF slides[1].dataRisk # <<>> THEN Num(parseFloat(slides[1].dataRisk)) ELSE NULL

\* setCanvasColorForSlide(idx): the value it writes to canvasRiskScore
setCanvasColorForSlide(slides, idx) ==
  IF idx + 1 \notin 1..Len(slides) THEN NULL
  ELSE LET riskAttr == slides[idx + 1].dataRisk
       IN IF riskAttr # <<>> THEN Num(parseFloat(riskAttr)) ELSE NULL

InitUI ==
  /\ stockData = NoStockData
  /\ currentTickers = <<>>
  /\ analyzeBtnDisabled = TRUE
  /\ resultsShown = FALSE
  /\ loggedInUser = NULL
  /\ portfolio = <<>>
  /\ requests = {}
  /\ isLoading = FALSE
  /\ allSlides = <<>>
  /\ carouselIndex = 0
  /\ carouselAnimating = FALSE
  /\ timers = <<>>
  /\ analyses = 0

(* ------------------------------------------------------------------ *)
(* Start-up script (app.js 1718-1724)                                  *)
(* ------------------------------------------------------------------ *)
Init ==
  /\ pc = "resize"
  /\ seedI = 0
  /\ attempts = 0
  /\ spawned = 0
  /\ client = <<1200, 800>>
  /\ w = 0
  /\ h = 0
  /\ prefersReducedMotion \in BOOLEAN
  /\ canvasRiskScore = NULL
  /\ scoreWrites = 0
  /\ LET r == slice(("COLOR_NEUTRAL" :> NEUTRAL_RGB), "COLOR_NEUTRAL", "currentColor")
     IN arrays = r.heap /\ currentColor = r.ref
  /\ targetColor = NEUTRAL_RGB
  /\ nextId = 0
  /\ nodes = <<>>
  /\ connections = <<>>
  /\ nodeMap = <<>>
  /\ lastNodeSpawn = 0
  /\ lastConnSpawn = 0
  /\ now = 0
  /\ frameCount = 0
  /\ ev = NoEv("init")
  /\ InitUI
  /\ rafPending = 0

\* resize(); window.addEventListener("resize", resize); generateStars();
StartResize ==
  /\ pc = "resize"
  /\ w' = resize(client, w, h)[1]
  /\ h' = resize(client, w, h)[2]
  /\ pc' = "seedNodes"
  /\ ev' = NoEv("resize")
  /\ UNCHANGED << rafPending, uiVars, seedI, attempts, spawned, client, prefersReducedMotion, canvasRiskScore,
                  scoreWrites, colorVars, poolVars, lastNodeSpawn, lastConnSpawn, now, frameCount >>

\* seedNodes(): one iteration of  for (i = 0; i < count; i++)
SeedNodesStep ==
  /\ pc = "seedNodes"
  /\ seedI < SEED_COUNT
  /\ \E sd \in SeedDraws :
       LET r == seedNodesIter(nodes, nodeMap, nextId, sd.stagger, sd.draws)
       IN /\ nodes' = r.nodes
          /\ nodeMap' = r.nodeMap
          /\ nextId' = r.nextId
  /\ seedI' = seedI + 1
  /\ ev' = NoEv("seedNodes")
  /\ UNCHANGED << rafPending, uiVars, pc, attempts, spawned, client, w, h, prefersReducedMotion, canvasRiskScore,
                  scoreWrites, colorVars, connections, lastNodeSpawn, lastConnSpawn, now, frameCount >>

\* seedNodes() returns; seedConnections() starts: attempts = 100, spawned = 0
SeedNodesDone ==
  /\ pc = "seedNodes"
  /\ seedI >= SEED_COUNT
  /\ pc' = "seedConnections"
  /\ seedI' = 0
  /\ attempts' = SEED_CONN_ATTEMPTS
  /\ spawned' = 0
  /\ ev' = NoEv("seedNodes")
  /\ UNCHANGED << rafPending, uiVars, client, w, h, prefersReducedMotion, canvasRiskScore, scoreWrites,
                  colorVars, poolVars, lastNodeSpawn, lastConnSpawn, now, frameCount >>

\* Mutant: the loop does not stop at the target count.
seedLoopCond_NoTarget(att, sp) == att > 0

\* seedConnections: while (attempts > 0 && spawned < 20)
seedLoopCond(att, sp) == att > 0 /\ sp < SEED_CONN_TARGET

\* seedConnections(): one iteration of  while (attempts > 0 && spawned < 20)
SeedConnectionsStep ==
  /\ pc = "seedConnections"
  /\ seedLoopCond(attempts, spawned)
  /\ attempts' = attempts - 1
  /\ \E aIdx \in 1..Len(nodes), bIdx \in 1..Len(nodes), accept \in BOOLEAN,
        stagger \in ConnStaggers :
       LET cs == seedConnectionsIter(nodes, connections, aIdx, bIdx, accept, stagger)
           reached == /\ aIdx # bIdx
                      /\ ~connectionExists(connections, nodes[aIdx].id, nodes[bIdx].id)
       IN /\ connections' = cs
          /\ spawned' = IF cs # connections THEN spawned + 1 ELSE spawned
          /\ ev' = [ NoEv("seedConnections") EXCEPT
                       !.connCalled = TRUE,
                       !.connLife = IF reached
                                    THEN << connLifeAt(nodes, 0, aIdx, bIdx) >>
                                    ELSE <<>>,
                       !.connAdded = (cs # connections) ]
  /\ UNCHANGED << rafPending, uiVars, pc, seedI, client, w, h, prefersReducedMotion, canvasRiskScore, scoreWrites,
                  colorVars, nextId, nodes, nodeMap, lastNodeSpawn, lastConnSpawn, now, frameCount >>

\* seedConnections() returns; requestAnimationFrame(render)
SeedConnectionsDone ==
  /\ pc = "seedConnections"
  /\ ~seedLoopCond(attempts, spawned)
  /\ pc' = "running"
  /\ attempts' = 0
  /\ spawned' = 0
  /\ ev' = NoEv("seedConnections")
  /\ rafPending' = rafPending + 1          \* requestAnimationFrame(render)
  /\ UNCHANGED << uiVars, seedI, client, w, h, prefersReducedMotion, canvasRiskScore, scoreWrites,
                  colorVars, poolVars, lastNodeSpawn, lastConnSpawn, now, frameCount >>

(* ------------------------------------------------------------------ *)
(* Events of the environment                                           *)
(* ------------------------------------------------------------------ *)
\* The layout gives the canvas another client size.
SetClientSize ==
  /\ pc = "running"
  /\ \E c \in ClientSizes : c # client /\ client' = c
  /\ ev' = [ NoEv("layout") EXCEPT !.writes = writesPending ]
  /\ UNCHANGED << rafPending, uiVars, pc, seedI, attempts, spawned, w, h, prefersReducedMotion, canvasRiskScore,
                  scoreWrites, colorVars, poolVars, lastNodeSpawn, lastConnSpawn, now, frameCount >>

\* window "resize" event
OnResize ==
  /\ pc = "running"
  /\ w' = resize(client, w, h)[1]
  /\ h' = resize(client, w, h)[2]
  /\ ev' = [ NoEv("resize") EXCEPT !.writes = writesPending ]
  /\ UNCHANGED << rafPending, uiVars, pc, seedI, attempts, spawned, client, prefersReducedMotion, canvasRiskScore,
                  scoreWrites, colorVars, poolVars, lastNodeSpawn, lastConnSpawn, now, frameCount >>

\* Mutant: only the first write after a frame takes effect.
WriteRiskScore_FirstWins ==
  /\ pc = "running"
  /\ scoreWrites < MaxScoreWrites
  /\ \E s \in Scores :
       /\ canvasRiskScore' = IF writesPending = <<>> THEN s ELSE canvasRiskScore
       /\ ev' = [ NoEv("score") EXCEPT !.writes = Append(writesPending, s) ]
  /\ scoreWrites' = scoreWrites + 1
  /\ UNCHANGED << rafPending, uiVars, pc, seedI, attempts, spawned, client, w, h, prefersReducedMotion,
                  colorVars, poolVars, lastNodeSpawn, lastConnSpawn, now, frameCount >>

\* An external caller writes the shared risk score.
WriteRiskScore ==
  /\ pc = "running"
  /\ scoreWrites < MaxScoreWrites
  /\ \E s \in Scores :
       /\ canvasRiskScore' = s
       /\ ev' = [ NoEv("score") EXCEPT !.writes = Append(writesPending, s) ]
  /\ scoreWrites' = scoreWrites + 1
  /\ UNCHANGED << rafPending, uiVars, pc, seedI, attempts, spawned, client, w, h, prefersReducedMotion,
                  colorVars, poolVars, lastNodeSpawn, lastConnSpawn, now, frameCount >>

(* ------------------------------------------------------------------ *)
(* Render loop                                                         *)
(* ------------------------------------------------------------------ *)
\* Mutant: the surface is never taken for unusable.
zeroSize_Never(cw, ch) == FALSE

\* render: w === 0 || h === 0
zeroSize(cw, ch) == cw = 0 \/ ch = 0

\* Mutant: the reduced-motion preference is not consulted.
nodeSpawnDue_IgnoreMotion(prm, elapsed, last) == elapsed - last > NODE_SPAWN_INTERVAL

\* Mutant: a frame exactly one interval after the last spawn spawns too.
nodeSpawnDue_AtLeast(prm, elapsed, last) == ~prm /\ elapsed - last >= NODE_SPAWN_INTERVAL

nodeSpawnDue(prm, elapsed, last) == ~prm /\ elapsed - last > NODE_SPAWN_INTERVAL
\* Mutant: the connection spawn does not consult the reduced-motion preference.
connSpawnDue_IgnoreMotion(prm, elapsed, last) == elapsed - last > CONN_SPAWN_INTERVAL

connSpawnDue(prm, elapsed, last) == ~prm /\ elapsed - last > CONN_SPAWN_INTERVAL

\* Mutant: the deferred path returns without requesting the next frame.
rafAfterRender_DeferredStops(pending, deferred) ==
  IF deferred THEN pending - 1 ELSE (pending - 1) + 1

\* The pending frame callbacks after render() has run: the callback that ran
\* is no longer pending, and both of its paths end in one
\* requestAnimationFrame(render).
rafAfterRender(pending, deferred) == (pending - 1) + 1

\* render() with w === 0 || h === 0
RenderDeferred ==
  /\ pc = "running"
  /\ zeroSize(w, h)
  /\ frameCount < MaxFrames
  /\ frameCount' = frameCount + 1
  /\ \E dt \in FrameGaps : now + dt <= MaxTime /\ now' = now + dt
  /\ w' = resize(client, w, h)[1]
  /\ h' = resize(client, w, h)[2]
  /\ ev' = [ NoEv("deferred") EXCEPT !.writes = writesPending ]
  /\ rafPending > 0
  /\ rafPending' = rafAfterRender(rafPending, TRUE)
  /\ UNCHANGED << uiVars, pc, seedI, attempts, spawned, client, prefersReducedMotion, canvasRiskScore,
                  scoreWrites, colorVars, poolVars, lastNodeSpawn, lastConnSpawn >>

\* render() on a usable surface.  s1: the pools after the
\* node spawn; c1: the connections after the connection spawn; p: the pools
\* after the node prune; c2: the connections after the connection prune.
\* The picture is output only (render reads no pixel back); the history keeps
\* it when canvas is TRUE.
Frame(gaps, canvas) ==
  /\ pc = "running"
  /\ ~zeroSize(w, h)
  /\ frameCount < MaxFrames
  /\ frameCount' = frameCount + 1
  /\ \E dt \in gaps, draws \in SpawnStreams :
       LET elapsed == now + dt
           nodeDue == nodeSpawnDue(prefersReducedMotion, elapsed, lastNodeSpawn)
           connDue == connSpawnDue(prefersReducedMotion, elapsed, lastConnSpawn)
       IN /\ elapsed <= MaxTime
          /\ now' = elapsed
          /\ targetColor' = getTargetColor(arrays, canvasRiskScore)
          /\ arrays' = lerpRGB(arrays, currentColor, getTargetColor(arrays, canvasRiskScore))
          /\ UNCHANGED currentColor
          /\ lastNodeSpawn' = IF nodeDue THEN elapsed ELSE lastNodeSpawn
          /\ lastConnSpawn' = IF connDue THEN elapsed ELSE lastConnSpawn
          /\ \E s1 \in { IF nodeDue
                         THEN spawnNode(nodes, nodeMap, nextId, elapsed, draws)
                         ELSE Pool(nodes, nodeMap, nextId) } :
             \E d \in ConnDraws(s1.nodes, connections, elapsed) :
             \E pair \in { tryConnPair(s1.nodes, connections, elapsed, d[1], d[2]) } :
             \E c1 \in { IF connDue
                         THEN trySpawnConnection(s1.nodes, connections, elapsed, d[1], d[2])
                         ELSE connections } :
             \E p \in { pruneNodes(s1.nodes, s1.nodeMap, elapsed) } :
             \E c2 \in { pruneConnections(c1, p.nodeMap, elapsed) } :
               /\ nodes' = p.nodes
               /\ nodeMap' = p.nodeMap
               /\ nextId' = s1.nextId
               /\ connections' = c2
               /\ ev' = [ NoEv("frame") EXCEPT
                          !.writes = writesPending,
                          !.spawnCalled = nodeDue,
                          !.spawnAtCap = nodeDue /\ Len(nodes) >= MAX_NODES,
                          !.spawnChanged = s1 # Pool(nodes, nodeMap, nextId),
                          !.connCalled = connDue,
                          !.connLife = IF connDue /\ pair # <<>>
                                       THEN << connLifeAt(s1.nodes, elapsed, pair[1], pair[2]) >>
                                       ELSE <<>>,
                          !.connAdded = c1 # connections,
                          !.prunedNodes = Range(s1.nodes) \ Range(p.nodes),
                          !.prunedConns = Range(c1) \ Range(c2),
                          !.painted = IF canvas
                                      THEN paint(p.nodes, c2, elapsed, w, h)
                                      ELSE NoEv("frame").painted,
                          !.ops = IF canvas
                                  THEN paintOps(paint(p.nodes, c2, elapsed, w, h),
                                                prefersReducedMotion)
                                  ELSE <<>> ]
  /\ rafPending > 0
  /\ rafPending' = rafAfterRender(rafPending, FALSE)
  /\ UNCHANGED << uiVars, pc, seedI, attempts, spawned, client, w, h, prefersReducedMotion,
                  canvasRiskScore, scoreWrites >>

RenderFrame == Frame(FrameGaps, FALSE)

Next ==
  \/ StartResize
  \/ SeedNodesStep
  \/ SeedNodesDone
  \/ SeedConnectionsStep
  \/ SeedConnectionsDone
  \/ RenderFrame

\* The start-up script and the frame loop on a laid-out canvas.
Spec == Init /\ [][Next]_vars

(* ------------------------------------------------------------------ *)
(* The frame loop and its environment after start-up                   *)
(* ------------------------------------------------------------------ *)
\* The pools the start-up script leaves for these draws: two seed nodes and
\* one seed connection.
SeededPool ==
  LET p1 == seedNodesIter(<<>>, <<>>, 0, -75, Stream(ShapeA, ShapeA, 0))
      p2 == seedNodesIter(p1.nodes, p1.nodeMap, p1.nextId, -75, Stream(ShapeC, ShapeC, 0))
  IN [ nodes |-> p2.nodes, nodeMap |-> p2.nodeMap, nextId |-> p2.nextId,
       connections |-> seedConnectionsIter(p2.nodes, <<>>, 1, 2, TRUE, -30) ]

InitEnv ==
  /\ pc = "running"
  /\ seedI = 0
  /\ attempts = 0
  /\ spawned = 0
  /\ client \in ClientSizes
  /\ w = resize(client, 0, 0)[1]
  /\ h = resize(client, 0, 0)[2]
  /\ prefersReducedMotion \in BOOLEAN
  /\ canvasRiskScore = NULL
  /\ scoreWrites = 0
  /\ LET r == slice(("COLOR_NEUTRAL" :> NEUTRAL_RGB), "COLOR_NEUTRAL", "currentColor")
     IN arrays = r.heap /\ currentColor = r.ref
  /\ targetColor = NEUTRAL_RGB
  /\ nextId = SeededPool.nextId
  /\ nodes = SeededPool.nodes
  /\ connections = SeededPool.connections
  /\ nodeMap = SeededPool.nodeMap
  /\ lastNodeSpawn = 0
  /\ lastConnSpawn = 0
  /\ now = 0
  /\ frameCount = 0
  /\ ev = NoEv("seedConnections")
  /\ InitUI
  /\ rafPending = 1

NextEnv ==
  \/ SetClientSize
  \/ OnResize
  \/ WriteRiskScore
  \/ RenderDeferred
  \/ RenderFrame

SpecEnv == InitEnv /\ [][NextEnv]_vars

(* ------------------------------------------------------------------ *)
(* The frame loop at the end of a seeded node's life                   *)
(* ------------------------------------------------------------------ *)
\* The pools the start-up script leaves when it seeds a 15 s node and a
\* 21.9 s node, both 7.5 s old, and no connection.
PaintPool ==
  LET p1 == seedNodesIter(<<>>, <<>>, 0, -75, Stream(ShapeC, ShapeC, 0))
      p2 == seedNodesIter(p1.nodes, p1.nodeMap, p1.nextId, -75, Stream(ShapeB, ShapeC, 1))
  IN [ nodes |-> p2.nodes, nodeMap |-> p2.nodeMap, nextId |-> p2.nextId,
       connections |-> seedConnectionsIter(p2.nodes, <<>>, 1, 1, TRUE, -30) ]

InitPaint ==
  /\ pc = "running"
  /\ seedI = 0
  /\ attempts = 0
  /\ spawned = 0
  /\ client = <<1200, 800>>
  /\ w = resize(client, 0, 0)[1]
  /\ h = resize(client, 0, 0)[2]
  /\ prefersReducedMotion = FALSE
  /\ canvasRiskScore \in Scores
  /\ scoreWrites = 0
  /\ LET r == slice(("COLOR_NEUTRAL" :> NEUTRAL_RGB), "COLOR_NEUTRAL", "currentColor")
     IN arrays = r.heap /\ currentColor = r.ref
  /\ targetColor = NEUTRAL_RGB
  /\ nextId = PaintPool.nextId
  /\ nodes = PaintPool.nodes
  /\ connections = PaintPool.connections
  /\ nodeMap = PaintPool.nodeMap
  /\ lastNodeSpawn = 0
  /\ lastConnSpawn = 0
  /\ now = 0
  /\ frameCount = 0
  /\ ev = NoEv("seedConnections")
  /\ InitUI
  /\ rafPending = 1

RenderFramePaint == Frame(PaintGaps, TRUE)

SpecPaint == InitPaint /\ [][RenderFramePaint]_vars

(* ------------------------------------------------------------------ *)
(* render() one statement group at a time (app.js 1607-1713)           *)
(* ------------------------------------------------------------------ *)
\* Mutant: the surface is painted before the pools are pruned.
renderSteps_PaintFirst ==
  << "colorSmoothing", "nodeSpawn", "connSpawn", "clear", "draw", "nodePrune", "connPrune" >>

\* The statement groups of render() in the order of its text.
renderSteps ==
  << "colorSmoothing", "nodeSpawn", "connSpawn", "nodePrune", "connPrune", "clear", "draw" >>

\* The position after statement group s; "running" is between two frames.
stepAfter(s) ==
  IF s = "running" THEN renderSteps[1]
  ELSE LET i == CHOOSE k \in 1..Len(renderSteps) : renderSteps[k] = s
       IN IF i = Len(renderSteps) THEN "running" ELSE renderSteps[i + 1]

\* render() is entered on a usable surface and reads the clock.
BeginFrame ==
  /\ pc = "running"
  /\ ~zeroSize(w, h)
  /\ frameCount < MaxFrames
  /\ frameCount' = frameCount + 1
  /\ \E dt \in FrameGaps : now + dt <= MaxTime /\ now' = now + dt
  /\ pc' = stepAfter(pc)
  /\ ev' = [ NoEv("frame") EXCEPT !.writes = writesPending ]
  /\ rafPending > 0
  /\ rafPending' = rafPending - 1          \* this callback is no longer pending
  /\ UNCHANGED << uiVars, seedI, attempts, spawned, client, w, h, prefersReducedMotion,
                  canvasRiskScore, scoreWrites, colorVars, poolVars, lastNodeSpawn,
                  lastConnSpawn >>

\* "Smooth color transition"
StepColor ==
  /\ pc = "colorSmoothing"
  /\ targetColor' = getTargetColor(arrays, canvasRiskScore)
  /\ arrays' = lerpRGB(arrays, currentColor, getTargetColor(arrays, canvasRiskScore))
  /\ pc' = stepAfter(pc)
  /\ ev' = [ ev EXCEPT !.steps = Append(@, "colorSmoothing") ]
  /\ UNCHANGED << rafPending, uiVars, seedI, attempts, spawned, client, w, h, prefersReducedMotion,
                  canvasRiskScore, scoreWrites, currentColor, poolVars, lastNodeSpawn,
                  lastConnSpawn, now, frameCount >>

\* "Spawn nodes"
StepNodeSpawn ==
  /\ pc = "nodeSpawn"
  /\ \E draws \in SpawnStreams :
       LET nodeDue == nodeSpawnDue(prefersReducedMotion, now, lastNodeSpawn)
       IN \E s1 \in { IF nodeDue
                      THEN spawnNode(nodes, nodeMap, nextId, now, draws)
                      ELSE Pool(nodes, nodeMap, nextId) } :
            /\ nodes' = s1.nodes
            /\ nodeMap' = s1.nodeMap
            /\ nextId' = s1.nextId
            /\ lastNodeSpawn' = IF nodeDue THEN now ELSE lastNodeSpawn
            /\ ev' = [ ev EXCEPT !.steps = Append(@, "nodeSpawn"),
                                 !.spawnCalled = nodeDue,
                                 !.spawnAtCap = nodeDue /\ Len(nodes) >= MAX_NODES,
                                 !.spawnChanged = s1 # Pool(nodes, nodeMap, nextId) ]
  /\ pc' = stepAfter(pc)
  /\ UNCHANGED << rafPending, uiVars, seedI, attempts, spawned, client, w, h, prefersReducedMotion,
                  canvasRiskScore, scoreWrites, colorVars, connections, lastConnSpawn,
                  now, frameCount >>

\* "Spawn connections"
StepConnSpawn ==
  /\ pc = "connSpawn"
  /\ \E d \in ConnDraws(nodes, connections, now) :
       LET connDue == connSpawnDue(prefersReducedMotion, now, lastConnSpawn)
           pair == tryConnPair(nodes, connections, now, d[1], d[2])
       IN \E c1 \in { IF connDue
                      THEN trySpawnConnection(nodes, connections, now, d[1], d[2])
                      ELSE connections } :
            /\ connections' = c1
            /\ lastConnSpawn' = IF connDue THEN now ELSE lastConnSpawn
            /\ ev' = [ ev EXCEPT !.steps = Append(@, "connSpawn"),
                                 !.connCalled = connDue,
                                 !.connLife = IF connDue /\ pair # <<>>
                                              THEN << connLifeAt(nodes, now, pair[1], pair[2]) >>
                                              ELSE <<>>,
                                 !.connAdded = c1 # connections ]
  /\ pc' = stepAfter(pc)
  /\ UNCHANGED << rafPending, uiVars, seedI, attempts, spawned, client, w, h, prefersReducedMotion,
                  canvasRiskScore, scoreWrites, colorVars, nextId, nodes, nodeMap,
                  lastNodeSpawn, now, frameCount >>

\* "Remove dead nodes"
StepNodePrune ==
  /\ pc = "nodePrune"
  /\ \E p \in { pruneNodes(nodes, nodeMap, now) } :
       /\ nodes' = p.nodes
       /\ nodeMap' = p.nodeMap
       /\ ev' = [ ev EXCEPT !.steps = Append(@, "nodePrune"),
                            !.prunedNodes = Range(nodes) \ Range(p.nodes) ]
  /\ pc' = stepAfter(pc)
  /\ UNCHANGED << rafPending, uiVars, seedI, attempts, spawned, client, w, h, prefersReducedMotion,
                  canvasRiskScore, scoreWrites, colorVars, nextId, connections,
                  lastNodeSpawn, lastConnSpawn, now, frameCount >>

\* "Remove dead / orphaned connections"
StepConnPrune ==
  /\ pc = "connPrune"
  /\ \E c2 \in { pruneConnections(connections, nodeMap, now) } :
       /\ connections' = c2
       /\ ev' = [ ev EXCEPT !.steps = Append(@, "connPrune"),
                            !.prunedConns = Range(connections) \ Range(c2) ]
  /\ pc' = stepAfter(pc)
  /\ UNCHANGED << rafPending, uiVars, seedI, attempts, spawned, client, w, h, prefersReducedMotion,
                  canvasRiskScore, scoreWrites, colorVars, nextId, nodes, nodeMap,
                  lastNodeSpawn, lastConnSpawn, now, frameCount >>

\* "Clear": the first paint operation of the frame
StepClear ==
  /\ pc = "clear"
  /\ ev' = [ ev EXCEPT !.steps = Append(@, "clear"), !.painted.cleared = TRUE,
                       !.ops = << [ op |-> "fill", id |-> 0 ] >> ]
  /\ pc' = stepAfter(pc)
  /\ UNCHANGED << rafPending, uiVars, seedI, attempts, spawned, client, w, h, prefersReducedMotion,
                  canvasRiskScore, scoreWrites, colorVars, poolVars, lastNodeSpawn,
                  lastConnSpawn, now, frameCount >>

\* posMap, "Draw connections", "Draw nodes"
StepDraw ==
  /\ pc = "draw"
  /\ \E pic \in { paint(nodes, connections, now, w, h) } :
       ev' = [ ev EXCEPT !.steps = Append(@, "draw"),
                         !.painted = [ pic EXCEPT !.cleared = ev.painted.cleared ],
                         !.ops = @ \o Tail(paintOps(pic, prefersReducedMotion)) ]
  /\ pc' = stepAfter(pc)
  /\ rafPending' = rafPending + 1          \* requestAnimationFrame(render)
  /\ UNCHANGED << uiVars, seedI, attempts, spawned, client, w, h, prefersReducedMotion,
                  canvasRiskScore, scoreWrites, colorVars, poolVars, lastNodeSpawn,
                  lastConnSpawn, now, frameCount >>

\* A callback starts only when no other is running, so the other callbacks
\* (WriteRiskScore, OnResize: guard pc = "running") wait for render() to return.
InitSteps ==
  /\ pc = "running"
  /\ seedI = 0
  /\ attempts = 0
  /\ spawned = 0
  /\ client = <<1200, 800>>
  /\ w = resize(client, 0, 0)[1]
  /\ h = resize(client, 0, 0)[2]
  /\ prefersReducedMotion \in BOOLEAN
  /\ canvasRiskScore = NULL
  /\ scoreWrites = 0
  /\ LET r == slice(("COLOR_NEUTRAL" :> NEUTRAL_RGB), "COLOR_NEUTRAL", "currentColor")
     IN arrays = r.heap /\ currentColor = r.ref
  /\ targetColor = NEUTRAL_RGB
  /\ \E pool \in {PaintPool, SeededPool} :
       /\ nextId = pool.nextId
       /\ nodes = pool.nodes
       /\ connections = pool.connections
       /\ nodeMap = pool.nodeMap
  /\ lastNodeSpawn = 0
  /\ lastConnSpawn = 0
  /\ now = 0
  /\ frameCount = 0
  /\ ev = NoEv("seedConnections")
  /\ InitUI
  /\ rafPending = 1

NextSteps ==
  \/ WriteRiskScore
  \/ OnResize
  \/ BeginFrame
  \/ StepColor
  \/ StepNodeSpawn
  \/ StepConnSpawn
  \/ StepNodePrune
  \/ StepConnPrune
  \/ StepClear
  \/ StepDraw

SpecSteps == InitSteps /\ [][NextSteps]_vars

(* ------------------------------------------------------------------ *)
(* The frame loop with frames closer together than the spawn intervals *)
(* ------------------------------------------------------------------ *)
\* Gaps between frames: 0.3 s (under both spawn intervals) and 0.7 s (over both)
GateGaps == {3, 7}

RenderFrameGate == Frame(GateGaps, FALSE)

SpecGate == InitPaint /\ [][RenderFrameGate]_vars

(* ------------------------------------------------------------------ *)
(* The writers of canvasRiskScore: analysis results and the carousel   *)
(* ------------------------------------------------------------------ *)
InitCarousel ==
  /\ pc = "running"
  /\ seedI = 0
  /\ attempts = 0
  /\ spawned = 0
  /\ client = <<1200, 800>>
  /\ w = 1200
  /\ h = 800
  /\ prefersReducedMotion = FALSE
  /\ canvasRiskScore = NULL
  /\ scoreWrites = 0
  /\ LET r == slice(("COLOR_NEUTRAL" :> NEUTRAL_RGB), "COLOR_NEUTRAL", "currentColor")
     IN arrays = r.heap /\ currentColor = r.ref
  /\ targetColor = NEUTRAL_RGB
  /\ nextId = 0
  /\ nodes = <<>>
  /\ connections = <<>>
  /\ nodeMap = <<>>
  /\ lastNodeSpawn = 0
  /\ lastConnSpawn = 0
  /\ now = 0
  /\ frameCount = 0
  /\ ev = NoEv("init")
  /\ InitUI
  /\ rafPending = 1

appVars == << pc, seedI, attempts, spawned, client, w, h, prefersReducedMotion, scoreWrites,
              colorVars, poolVars, lastNodeSpawn, lastConnSpawn, now, frameCount,
              rafPending >>

\* A setTimeout callback runs only after every callback that was set before
\* it with a delay equal to or less than its own (HTML timers)
timerReady(i) == \A j \in 1..(i - 1) : timers[j].delay > timers[i].delay

removeAt(seq, i) == SubSeq(seq, 1, i - 1) \o SubSeq(seq, i + 1, Len(seq))

\* Mutant: a navigation starts while another one is animating.
navigateCarousel_WhileAnimating(direction, targetIndex) ==
  /\ IF Len(allSlides) <= 1
     THEN /\ ev' = [ NoEv("navigateIgnored") EXCEPT !.args = << direction >> ]
          /\ UNCHANGED << carouselAnimating, timers >>
     ELSE LET total == Len(allSlides)
              target == IF targetIndex # <<>> THEN targetIndex[1]
                        ELSE IF direction = "right" THEN (carouselIndex + 1) % total
                        ELSE (carouselIndex - 1 + total) % total
          IN /\ carouselAnimating' = TRUE
             /\ timers' =
                  Append(timers,
                         [ fn |-> "show", delay |-> 250, targetIndex |-> target,
                           currentSlide |->
                             [ gen |-> allSlides[1].gen, index |-> carouselIndex ] ])
             /\ ev' = [ NoEv("navigate") EXCEPT !.args = << direction >> ]
  /\ UNCHANGED << pageVars, stockData, appVars, canvasRiskScore, isLoading, allSlides,
                  carouselIndex, analyses >>

\* navigateCarousel(direction, targetIndex), up to the first setTimeout;
\* targetIndex is <<>> when the caller passes none.  The callback keeps
\* currentSlide, the element shown when the navigation started.
navigateCarousel(direction, targetIndex) ==
  /\ IF carouselAnimating \/ Len(allSlides) <= 1
     THEN /\ ev' = [ NoEv("navigateIgnored") EXCEPT !.args = << direction >> ]
          /\ UNCHANGED << carouselAnimating, timers >>
     ELSE LET total == Len(allSlides)
              target == IF targetIndex # <<>> THEN targetIndex[1]
                        ELSE IF direction = "right" THEN (carouselIndex + 1) % total
                        ELSE (carouselIndex - 1 + total) % total
          IN /\ carouselAnimating' = TRUE
             /\ IF carouselIndex + 1 \in 1..total
                THEN /\ timers' =
                          Append(timers,
                                 [ fn |-> "show", delay |-> 250, targetIndex |-> target,
                                   currentSlide |->
                                     [ gen |-> allSlides[carouselIndex + 1].gen,
                                       index |-> carouselIndex ] ])
                     /\ ev' = [ NoEv("navigate") EXCEPT !.args = << direction >> ]
                ELSE /\ UNCHANGED timers
                     /\ ev' = NoEv("navigateStartThrew")
  /\ UNCHANGED << pageVars, stockData, appVars, canvasRiskScore, isLoading, allSlides,
                  carouselIndex, analyses >>

\* The click handlers of carouselPrev and carouselNext.  A click reaches the
\* buttons only while the results section is displayed.
ClickPrev == resultsShown /\ navigateCarousel("left", <<>>)
ClickNext == resultsShown /\ navigateCarousel("right", <<>>)

\* The click handler of a dot built by buildCarouselDots(total)
ClickDot ==
  /\ resultsShown
  /\ \E idx \in 0..(Len(allSlides) - 1) :
       /\ idx # carouselIndex /\ ~carouselAnimating
       /\ navigateCarousel(IF idx > carouselIndex THEN "right" ELSE "left", << idx >>)

\* The keydown handler of document for ArrowLeft / ArrowRight
ArrowKey ==
  /\ ~(Len(allSlides) <= 1)
  /\ resultsShown
  /\ \E direction \in { "left", "right" } : navigateCarousel(direction, <<>>)

\* The 250 ms callback of navigateCarousel: hides currentSlide and shows
\* allSlides[targetIndex].  Were allSlides replaced by a shorter list in
\* between, nextSlide would be undefined and nextSlide.style would throw after
\* carouselIndex has been assigned.
NavigateShow ==
  \E i \in DOMAIN timers :
    /\ timers[i].fn = "show"
    /\ timerReady(i)
    /\ carouselIndex' = timers[i].targetIndex
    /\ LET t == timers[i]
           hidden == [k \in 1..Len(allSlides) |->
                        IF allSlides[k].gen = t.currentSlide.gen /\ k = t.currentSlide.index + 1
                        THEN [ allSlides[k] EXCEPT !.display = FALSE ]
                        ELSE allSlides[k]]
       IN IF t.targetIndex + 1 \in 1..Len(allSlides)
          THEN /\ allSlides' = [ hidden EXCEPT ![t.targetIndex + 1].display = TRUE ]
               /\ canvasRiskScore' = setCanvasColorForSlide(allSlides, t.targetIndex)
               /\ timers' = Append(removeAt(timers, i), [ fn |-> "unlock", delay |-> 260 ])
               /\ ev' = NoEv("navigated")
          ELSE /\ allSlides' = hidden
               /\ UNCHANGED canvasRiskScore
               /\ timers' = removeAt(timers, i)
               /\ ev' = NoEv("navigateThrew")
    /\ UNCHANGED << pageVars, stockData, appVars, isLoading, carouselAnimating, analyses >>

\* The 260 ms callback: carouselAnimating = false
NavigateUnlock ==
  \E i \in DOMAIN timers :
    /\ timers[i].fn = "unlock"
    /\ timerReady(i)
    /\ timers' = removeAt(timers, i)
    /\ carouselAnimating' = FALSE
    /\ ev' = NoEv("unlock")
    /\ UNCHANGED << pageVars, stockData, appVars, canvasRiskScore, isLoading, allSlides,
                    carouselIndex, analyses >>

(* ------------------------------------------------------------------ *)
(* One call of fetchStockData and its two requests                     *)
(* ------------------------------------------------------------------ *)
\* Arguments of fetchStockData: a string or an array of strings, with blanks,
\* lower case and empty entries
StringArg(str) == [ isArray |-> FALSE, string |-> str, array |-> <<>> ]
ArrayArg(arr) == [ isArray |-> TRUE, string |-> <<>>, array |-> arr ]
TickerArgs ==
  { StringArg(<< "a" >>),
    StringArg(<< " " >>),
    ArrayArg(<<>>),
    ArrayArg(<< << " ", "a", " " >> >>),
    ArrayArg(<< << "a" >>, << "M" >> >>),
    ArrayArg(<< << "m", " " >>, <<>>, << "A" >> >>) }

\* Bodies of a response with an OK status: the documented shape, shapes with
\* a member missing, and values that are no objects
Bodies ==
  { JObject(JArray(<< [ ticker |-> << "A" >>, composite_fraud_risk_score |-> Num(90) ] >>),
            JArray(<<>>)),
    JObject(JArray(<< [ ticker |-> << "A" >>, composite_fraud_risk_score |-> Num(10) ],
                      [ ticker |-> << "M" >>, composite_fraud_risk_score |-> Num(90) ] >>),
            JArray(<<>>)),
    JObject(JArray(<<>>),
            JArray(<< [ ticker |-> << "M" >>, error |-> Message("", "no data", 0) ] >>)),
    JObject(NotArray, JArray(<<>>)),
    JObject(JArray(<<>>), NotArray),
    JNumber,
    JNull }

\* Outcomes of one request
Outcomes ==
  { [ kind |-> "network" ], [ kind |-> "syntax" ],
    [ kind |-> "status", status |-> 404 ], [ kind |-> "status", status |-> 500 ] }
  \cup { [ kind |-> "ok", body |-> b ] : b \in Bodies }

\* A call of fetchStockData with one of these arguments
FetchStockData ==
  /\ ~stockData.called
  /\ \E tickers \in TickerArgs : stockData' = fetchStockData(tickers)
  /\ ev' = NoEv("fetchStockData")
  /\ UNCHANGED << pageVars, appVars, canvasRiskScore, isLoading, allSlides, carouselIndex,
                  carouselAnimating, timers, analyses >>

\* Request i of the call settles: riskPromise / riskSingle (1),
\* healthPromise / healthSingle (2)
settleRequest(i, label, single) ==
  /\ stockData.settled # <<>>
  /\ stockData.settled[i].status = "pending"
  /\ \E outcome \in Outcomes :
       stockData' =
         [ stockData EXCEPT !.settled[i] =
             IF Len(stockData.tickerList) > 1
             THEN fetchJson(label, outcome)
             ELSE wrapSingle(fetchJson(single, outcome)) ]
  /\ ev' = NoEv(label)
  /\ UNCHANGED << pageVars, appVars, canvasRiskScore, isLoading, allSlides, carouselIndex,
                  carouselAnimating, timers, analyses >>

SettleRisk == settleRequest(1, "risk", "risk single")
SettleHealth == settleRequest(2, "health", "health single")

\* Promise.allSettled has settled: its then-callback runs
AllSettled ==
  /\ stockData.settled # <<>>
  /\ stockData.promise.status = "pending"
  /\ \A i \in 1..2 : stockData.settled[i].status # "pending"
  /\ stockData' =
       [ stockData EXCEPT !.promise = settleStockData(stockData.tickerList, stockData.settled) ]
  /\ ev' = NoEv("allSettled")
  /\ UNCHANGED << pageVars, appVars, canvasRiskScore, isLoading, allSlides, carouselIndex,
                  carouselAnimating, timers, analyses >>

InitFetch == InitSteps /\ ~prefersReducedMotion /\ nodes = SeededPool.nodes

NextFetch ==
  \/ FetchStockData
  \/ SettleRisk
  \/ SettleHealth
  \/ AllSettled

SpecFetch == InitFetch /\ [][NextFetch]_vars

(* ------------------------------------------------------------------ *)
(* An analysis from its trigger to the rendering of its results        *)
(* ------------------------------------------------------------------ *)
\* Values of parseTickers(tickerInput.value): none, one or two symbols
TickerLists == { <<>>, << << "A" >> >>, << << "A" >>, << "M" >> >> }

\* refreshTickerUI: analyzeBtn.disabled
analyzeDisabledFor(tickers, loading) == Len(tickers) = 0 \/ loading

\* The input event of tickerInput: refreshTickerUI.  tickerInput is disabled
\* from runAnalysis until the results callback, as long as isLoading is true.
InputTickers ==
  /\ ~isLoading
  /\ \E t \in TickerLists :
       /\ currentTickers' = t
       /\ analyzeBtnDisabled' = analyzeDisabledFor(t, isLoading)
  /\ ev' = NoEv("input")
  /\ UNCHANGED << appVars, stockData, canvasRiskScore, isLoading, allSlides, carouselIndex,
                  carouselAnimating, timers, analyses, resultsShown, authVars >>

\* runAnalysis(), up to its return: the request is sent; ev.args keeps the
\* value isLoading had when it was called
runAnalysis(trigger) ==
  /\ analyses < MaxAnalyses
  /\ analyses' = analyses + 1
  /\ isLoading' = TRUE
  /\ analyzeBtnDisabled' = TRUE
  /\ resultsShown' = FALSE
  /\ stockData' = fetchStockData(ArrayArg(currentTickers))
  /\ ev' = [ NoEv(trigger) EXCEPT !.args = << isLoading >> ]
  /\ UNCHANGED << appVars, canvasRiskScore, allSlides, carouselIndex, carouselAnimating,
                  timers, currentTickers, authVars >>

\* The click handler of analyzeBtn
ClickAnalyze == Len(currentTickers) > 0 /\ ~isLoading /\ runAnalysis("click")

\* The keydown handler of tickerInput for Ctrl/Cmd+Enter
KeyAnalyze == Len(currentTickers) > 0 /\ ~isLoading /\ runAnalysis("keydown")

\* fetchStockData(tickers).then(function (payload) ...), up to setTimeout
PayloadReceived ==
  /\ stockData.called
  /\ ~stockData.handled
  /\ stockData.promise.status = "fulfilled"
  /\ stockData' = [ stockData EXCEPT !.handled = TRUE ]
  /\ timers' = Append(timers, [ fn |-> "results", delay |-> 300 ])
  /\ ev' = NoEv("payload")
  /\ UNCHANGED << pageVars, appVars, canvasRiskScore, isLoading, allSlides, carouselIndex,
                  carouselAnimating, analyses >>

\* healthResults[h].ticker and r.ticker: reading a property of a null entry throws
entryThrows(items) == \E i \in 1..Len(items) : items[i] = JNull

\* composite_fraud_risk_score of a result; undefined reads as null
scoreOf(item) ==
  IF "composite_fraud_risk_score" \in DOMAIN item THEN item.composite_fraud_risk_score
  ELSE NULL

\* The 300 ms callback: merges the results, ends the loading state and
\* renders; it throws before isLoading = false when a result entry is null
ResultsTimeout ==
  \E i \in DOMAIN timers :
    /\ timers[i].fn = "results"
    /\ timerReady(i)
    /\ timers' = removeAt(timers, i)
    /\ LET payload == stockData.promise.value
           allErrs == payload.riskErrors \o payload.healthErrors
           mergedErrors == { toUpperCase(allErrs[e].ticker) : e \in 1..Len(allErrs) } \ { <<>> }
           stocks == [k \in 1..Len(payload.riskResults) |-> scoreOf(payload.riskResults[k])]
           slides == renderResults(stocks, Cardinality(mergedErrors), analyses)
       IN IF entryThrows(payload.healthResults) \/ entryThrows(payload.riskResults)
          THEN /\ ev' = NoEv("resultsThrew")
               /\ UNCHANGED << isLoading, analyzeBtnDisabled, resultsShown, canvasRiskScore,
                               allSlides, carouselIndex >>
          ELSE /\ isLoading' = FALSE
               /\ analyzeBtnDisabled' = analyzeDisabledFor(currentTickers, FALSE)
               /\ allSlides' = slides
               /\ carouselIndex' = 0
               /\ resultsShown' = TRUE
               /\ canvasRiskScore' = setCanvasColorForSlide(slides, 0)
               /\ ev' = NoEv("results")
    /\ UNCHANGED << appVars, stockData, carouselAnimating, analyses, currentTickers,
                    authVars >>

InitAnalysis == InitCarousel

NextAnalysis ==
  \/ InputTickers
  \/ ClickAnalyze
  \/ KeyAnalyze
  \/ SettleRisk
  \/ SettleHealth
  \/ AllSettled
  \/ PayloadReceived
  \/ ResultsTimeout

SpecAnalysis == InitAnalysis /\ [][NextAnalysis]_vars

\* The analysis and the carousel together
NextCarousel ==
  \/ NextAnalysis
  \/ ClickPrev
  \/ ClickNext
  \/ ClickDot
  \/ ArrowKey
  \/ NavigateShow
  \/ NavigateUnlock

SpecCarousel == InitCarousel /\ [][NextCarousel]_vars

\* The slides that are displayed
DisplayedSlides == { i \in 1..Len(allSlides) : allSlides[i].display }

AnalysisStep == SettleRisk \/ SettleHealth \/ AllSettled \/ PayloadReceived \/ ResultsTimeout

\* C35: at most one analysis is in flight: runAnalysis is started by the click
\* and by Ctrl/Cmd+Enter only while isLoading is false; a started analysis
\* always comes to its results callback, which sets isLoading to false and
\* re-enables the analyze button when tickers are present.  The last part is
\* stated so that a finite run refutes it: while isLoading is true a step of
\* the analysis is still to come.
C35_OneAnalysisInFlight ==
  /\ ev.kind \in { "click", "keydown" } => ev.args = << FALSE >>
  /\ ev.kind = "results"
       => ~isLoading /\ (Len(currentTickers) > 0 => ~analyzeBtnDisabled)
  /\ isLoading => ENABLED AnalysisStep

(* ------------------------------------------------------------------ *)
(* Authentication and the in-memory portfolio                          *)
(* ------------------------------------------------------------------ *)
MaxPending == 2

\* Phone numbers that pass isValidPhone, and the portfolios the server holds
Phones == { 1, 2 }
ServerPortfolios == { <<>>, << [ ticker |-> << "M" >> ] >> }

User(phone) == [ null |-> FALSE, phone |-> phone ]

\* Object.keys(merged): the portfolio followed by the new tickers it lacks
mergeKeys(list, clean) ==
  list \o SelectSeq(clean, LAMBDA t : \A i \in 1..Len(list) : list[i] # t)

\* submitAuth() in register mode, up to the return of registerUser's promise
SubmitRegister ==
  /\ Cardinality(requests) < MaxPending
  /\ \E phone \in Phones : requests' = requests \cup { [ kind |-> "register", phone |-> phone ] }
  /\ ev' = NoEv("submitRegister")
  /\ UNCHANGED << appVars, stockData, canvasRiskScore, isLoading, allSlides, carouselIndex,
                  carouselAnimating, timers, analyses, currentTickers, analyzeBtnDisabled,
                  resultsShown, loggedInUser, portfolio >>

\* submitAuth() in login mode; fetchUser rejects at once while another
\* lookup is in flight (userFetchInFlight)
SubmitLogin ==
  /\ Cardinality(requests) < MaxPending
  /\ ~\E r \in requests : r.kind = "login"
  /\ \E phone \in Phones : requests' = requests \cup { [ kind |-> "login", phone |-> phone ] }
  /\ ev' = NoEv("submitLogin")
  /\ UNCHANGED << appVars, stockData, canvasRiskScore, isLoading, allSlides, carouselIndex,
                  carouselAnimating, timers, analyses, currentTickers, analyzeBtnDisabled,
                  resultsShown, loggedInUser, portfolio >>

\* The callbacks of registerUser(phone, name): then on success, catch on failure
RegisterSettles ==
  \E r \in requests :
    /\ r.kind = "register"
    /\ requests' = requests \ { r }
    /\ \E ok \in BOOLEAN :
         IF ok
         THEN /\ loggedInUser' = User(r.phone)
              /\ portfolio' = <<>>
              /\ analyzeBtnDisabled' = analyzeDisabledFor(currentTickers, isLoading)
              /\ ev' = NoEv("registered")
         ELSE /\ UNCHANGED << loggedInUser, portfolio, analyzeBtnDisabled >>
              /\ ev' = NoEv("registerFailed")
    /\ UNCHANGED << appVars, stockData, canvasRiskScore, isLoading, allSlides, carouselIndex,
                    carouselAnimating, timers, analyses, currentTickers, resultsShown >>

\* The callbacks of fetchUser(phone)
LoginSettles ==
  \E r \in requests :
    /\ r.kind = "login"
    /\ requests' = requests \ { r }
    /\ \/ \E held \in ServerPortfolios :
            /\ loggedInUser' = User(r.phone)
            /\ portfolio' = [i \in 1..Len(held) |-> held[i].ticker]
            /\ analyzeBtnDisabled' = analyzeDisabledFor(currentTickers, isLoading)
            /\ ev' = NoEv("loggedIn")
       \/ /\ UNCHANGED << loggedInUser, portfolio, analyzeBtnDisabled >>
          /\ ev' = NoEv("loginFailed")
    /\ UNCHANGED << appVars, stockData, canvasRiskScore, isLoading, allSlides, carouselIndex,
                    carouselAnimating, timers, analyses, currentTickers, resultsShown >>

\* handleLogout()
HandleLogout ==
  /\ loggedInUser # NULL
  /\ loggedInUser' = NULL
  /\ portfolio' = <<>>
  /\ analyzeBtnDisabled' = analyzeDisabledFor(currentTickers, isLoading)
  /\ ev' = NoEv("logout")
  /\ UNCHANGED << appVars, stockData, canvasRiskScore, isLoading, allSlides, carouselIndex,
                  carouselAnimating, timers, analyses, currentTickers, resultsShown,
                  requests >>

\* addToPortfolio(currentTickers) from the portfolio button or Shift+Enter, up
\* to the return of addToPortfolioRemote's promise
AddToPortfolio ==
  /\ Len(currentTickers) > 0 /\ ~isLoading
  /\ loggedInUser # NULL
  /\ Cardinality(requests) < MaxPending
  /\ LET clean == SelectSeq([i \in 1..Len(currentTickers) |-> toUpperCase(currentTickers[i])],
                            LAMBDA t : t # <<>>)
     IN /\ Len(clean) # 0
        /\ requests' = requests \cup
             { [ kind |-> "add", phone |-> loggedInUser.phone, clean |-> clean ] }
  /\ ev' = NoEv("addToPortfolio")
  /\ UNCHANGED << appVars, stockData, canvasRiskScore, isLoading, allSlides, carouselIndex,
                  carouselAnimating, timers, analyses, currentTickers, analyzeBtnDisabled,
                  resultsShown, loggedInUser, portfolio >>

\* The callbacks of addToPortfolioRemote(phone, clean)
AddSettles ==
  \E r \in requests :
    /\ r.kind = "add"
    /\ requests' = requests \ { r }
    /\ \E ok \in BOOLEAN :
         IF ok
         THEN /\ portfolio' = mergeKeys(portfolio, r.clean)
              /\ ev' = NoEv("added")
         ELSE /\ UNCHANGED portfolio
              /\ ev' = NoEv("addFailed")
    /\ UNCHANGED << appVars, stockData, canvasRiskScore, isLoading, allSlides, carouselIndex,
                    carouselAnimating, timers, analyses, currentTickers, analyzeBtnDisabled,
                    resultsShown, loggedInUser >>

InitPortfolio == InitCarousel

NextPortfolio ==
  \/ InputTickers
  \/ SubmitRegister
  \/ SubmitLogin
  \/ RegisterSettles
  \/ LoginSettles
  \/ HandleLogout
  \/ AddToPortfolio
  \/ AddSettles

SpecPortfolio == InitPortfolio /\ [][NextPortfolio]_vars

\* C37: whenever no user is logged in, the in-memory portfolio is empty, also
\* when a request to add to the portfolio that was issued before the logout
\* completes after it.
C37_LoggedOutPortfolioEmpty == loggedInUser = NULL => portfolio = <<>>

(* ------------------------------------------------------------------ *)
(* getTargetColor on its own                                           *)
(* ------------------------------------------------------------------ *)
InitTarget ==
  /\ pc = "getTargetColor"
  /\ seedI = 0
  /\ attempts = 0
  /\ spawned = 0
  /\ client = <<1200, 800>>
  /\ w = 1200
  /\ h = 800
  /\ prefersReducedMotion = FALSE
  /\ canvasRiskScore \in ScoreInputs
  /\ scoreWrites = 0
  /\ LET r == slice(("COLOR_NEUTRAL" :> NEUTRAL_RGB), "COLOR_NEUTRAL", "currentColor")
     IN arrays = r.heap /\ currentColor = r.ref
  /\ targetColor = NEUTRAL_RGB
  /\ nextId = 0
  /\ nodes = <<>>
  /\ connections = <<>>
  /\ nodeMap = <<>>
  /\ lastNodeSpawn = 0
  /\ lastConnSpawn = 0
  /\ now = 0
  /\ frameCount = 0
  /\ ev = NoEv("call")
  /\ InitUI
  /\ rafPending = 1

\* var targetColor = getTargetColor(canvasRiskScore)
CallGetTargetColor ==
  /\ pc = "getTargetColor"
  /\ targetColor' = getTargetColor(arrays, canvasRiskScore)
  /\ pc' = "returned"
  /\ UNCHANGED << rafPending, uiVars, seedI, attempts, spawned, client, w, h, prefersReducedMotion, canvasRiskScore,
                  scoreWrites, arrays, currentColor, poolVars, lastNodeSpawn, lastConnSpawn,
                  now, frameCount, ev >>

SpecTarget == InitTarget /\ [][CallGetTargetColor]_vars

(* ------------------------------------------------------------------ *)
(* lerpRGB on its own, repeated with a constant target                 *)
(* ------------------------------------------------------------------ *)
InitLerp ==
  /\ pc = "lerpRGB"
  /\ seedI = 0
  /\ attempts = 0
  /\ spawned = 0
  /\ client = <<1200, 800>>
  /\ w = 1200
  /\ h = 800
  /\ prefersReducedMotion = FALSE
  /\ canvasRiskScore = NULL
  /\ scoreWrites = 0
  /\ currentColor = "currentColor"
  /\ \E c \in StartColors : arrays = ("COLOR_NEUTRAL" :> NEUTRAL_RGB) @@ ("currentColor" :> c)
  /\ targetColor \in StartColors
  /\ nextId = 0
  /\ nodes = <<>>
  /\ connections = <<>>
  /\ nodeMap = <<>>
  /\ lastNodeSpawn = 0
  /\ lastConnSpawn = 0
  /\ now = 0
  /\ frameCount = 0
  /\ ev = NoEv("call")
  /\ InitUI
  /\ rafPending = 1

\* lerpRGB(currentColor, targetColor, 0.025)
CallLerpRGB ==
  /\ pc = "lerpRGB"
  /\ frameCount < LerpFrames
  /\ frameCount' = frameCount + 1
  /\ arrays' = lerpRGB(arrays, currentColor, targetColor)
  /\ UNCHANGED << rafPending, uiVars, pc, seedI, attempts, spawned, client, w, h, prefersReducedMotion,
                  canvasRiskScore, scoreWrites, currentColor, targetColor, poolVars,
                  lastNodeSpawn, lastConnSpawn, now, ev >>

SpecLerp == InitLerp /\ [][CallLerpRGB]_vars

(* ------------------------------------------------------------------ *)
(* The colour step of render under changing scores                     *)
(* ------------------------------------------------------------------ *)
\* The Current Color has settled on the neutral colour or on a stop (the
\* smoothing ends there once a score has been kept long enough).
InitColor ==
  /\ InitLerp
  /\ targetColor = NEUTRAL_RGB

\* A writer sets canvasRiskScore between two frames.
WriteColorScore ==
  /\ pc = "lerpRGB"
  /\ \E sc \in ColorScores : canvasRiskScore' = sc /\ canvasRiskScore' # canvasRiskScore
  /\ ev' = NoEv("score")
  /\ UNCHANGED << rafPending, uiVars, pc, seedI, attempts, spawned, client, w, h,
                  prefersReducedMotion, scoreWrites, colorVars, poolVars, lastNodeSpawn,
                  lastConnSpawn, now, frameCount >>

\* render: "Smooth color transition" (1607-1612)
ColorFrame ==
  /\ pc = "lerpRGB"
  /\ frameCount < MaxColorFrames
  /\ frameCount' = frameCount + 1
  /\ targetColor' = getTargetColor(arrays, canvasRiskScore)
  /\ arrays' = lerpRGB(arrays, currentColor, getTargetColor(arrays, canvasRiskScore))
  /\ ev' = NoEv("colorFrame")
  /\ UNCHANGED << rafPending, uiVars, pc, seedI, attempts, spawned, client, w, h,
                  prefersReducedMotion, canvasRiskScore, scoreWrites, currentColor, poolVars,
                  lastNodeSpawn, lastConnSpawn, now >>

NextColor ==
  \/ WriteColorScore
  \/ ColorFrame

SpecColor == InitColor /\ [][NextColor]_vars

(* ------------------------------------------------------------------ *)
(* lifecycleOpacity on its own                                         *)
(* ------------------------------------------------------------------ *)
InitOpacity ==
  /\ pc = "lifecycleOpacity"
  /\ seedI = 0
  /\ attempts = 0
  /\ spawned = 0
  /\ client = <<1200, 800>>
  /\ w = 1200
  /\ h = 800
  /\ prefersReducedMotion = FALSE
  /\ canvasRiskScore = NULL
  /\ scoreWrites = 0
  /\ LET r == slice(("COLOR_NEUTRAL" :> NEUTRAL_RGB), "COLOR_NEUTRAL", "currentColor")
     IN arrays = r.heap /\ currentColor = r.ref
  /\ targetColor = NEUTRAL_RGB
  /\ nextId = 0
  /\ nodes = <<>>
  /\ connections = <<>>
  /\ nodeMap = <<>>
  /\ lastNodeSpawn = 0
  /\ lastConnSpawn = 0
  /\ now = 0
  /\ frameCount = 0
  /\ \E a \in OpacityArgs : ev = [NoEv("call") EXCEPT !.args = a]
  /\ InitUI
  /\ rafPending = 1

\* var op = lifecycleOpacity(nAge, n.lifetime)
CallLifecycleOpacity ==
  /\ pc = "lifecycleOpacity"
  /\ ev' = [ev EXCEPT !.ret = << lifecycleOpacity(ev.args[1], ev.args[2]) >>]
  /\ pc' = "returned"
  /\ UNCHANGED << rafPending, uiVars, seedI, attempts, spawned, client, w, h, prefersReducedMotion, canvasRiskScore,
                  scoreWrites, colorVars, poolVars, lastNodeSpawn, lastConnSpawn, now,
                  frameCount >>

SpecOpacity == InitOpacity /\ [][CallLifecycleOpacity]_vars

(* ------------------------------------------------------------------ *)
(* Properties                                                          *)
(* ------------------------------------------------------------------ *)
NodeIds == { nodes[i].id : i \in 1..Len(nodes) }
ConnPair(c) == {c.idA, c.idB}
NotBelow(op, p, q) == ~OpBelow(op, p, q)
FrameRan == pc = "running" /\ ev.kind = "frame"

\* C1: the Connection Pool never holds two connections with the same
\* unordered pair of node ids, whoever created them and in whichever order.
C1_UniquePairs ==
  \A i \in 1..Len(connections) : \A j \in 1..Len(connections) :
    i # j => ConnPair(connections[i]) # ConnPair(connections[j])

\* C1 witness: trySpawnConnection ran on two visible nodes with room in the
\* pool and added nothing, because the only possible partner is already
\* connected to the origin.
C1_Witness ==
  /\ FrameRan
  /\ ev.connCalled /\ ~ev.connAdded /\ ev.connLife = <<>>
  /\ Len(nodes) = 2 /\ Len(connections) = 1
  /\ ConnPair(connections[1]) = NodeIds
  /\ \A i \in 1..2 : NotBelow(nodeAt(nodes, i, now).op, 1, 2)

\* C2: at the end of every frame each remaining connection has both
\* endpoints in the Node Pool, and no remaining connection references a node
\* the frame removed.
C2_NoOrphans ==
  FrameRan =>
    /\ \A c \in Range(connections) : c.idA \in NodeIds /\ c.idB \in NodeIds
    /\ \A n \in ev.prunedNodes : \A c \in Range(connections) : n.id \notin ConnPair(c)

\* C2 witness: a frame removed a node and, with it, a connection ending at it.
C2_Witness ==
  /\ FrameRan
  /\ \E n \in ev.prunedNodes : \E c \in ev.prunedConns : n.id \in ConnPair(c)

\* C3: every connection in the pool has a lifetime of at least 2 seconds, and
\* a spawn attempt whose endpoints' minimum remaining lifetime is below 2
\* seconds leaves the pool unchanged.
C3_MinLifetime ==
  /\ \A c \in Range(connections) : c.lifetime >= MIN_CONN_LIFE
  /\ (ev.connCalled /\ ev.connLife # <<>> /\ ev.connLife[1] < MIN_CONN_LIFE) => ~ev.connAdded

\* C3 witness: trySpawnConnection chose a pair with less than 2 seconds left.
C3_Witness ==
  /\ FrameRan
  /\ ev.connCalled /\ ev.connLife # <<>> /\ ev.connLife[1] < MIN_CONN_LIFE
  /\ ev.connLife[1] > 0

\* C4: with reduced motion no frame adds a node or a connection, and once a
\* frame has run at a simulated time beyond the maximum node lifetime both
\* pools are empty (and so stay empty).
C4_ReducedMotion ==
  /\ [](prefersReducedMotion /\ FrameRan /\ now > NODE_LIFETIME_MAX
          => nodes = <<>> /\ connections = <<>>)
  /\ [][ (prefersReducedMotion /\ pc = "running")
           => /\ Range(nodes') \subseteq Range(nodes)
              /\ Range(connections') \subseteq Range(connections)
              /\ nextId' = nextId ]_vars

\* C4 witness: under reduced motion a frame beyond 22 s emptied the node pool.
C4_Witness ==
  /\ prefersReducedMotion /\ FrameRan /\ now > NODE_LIFETIME_MAX
  /\ ev.prunedNodes # {} /\ nodes = <<>> /\ connections = <<>>

\* C5: spawnNode called on a full Node Pool changes neither the node list,
\* nor the id-to-node map, nor the id counter (it does not touch connections).
C5_SaturatedSpawn == (ev.spawnCalled /\ ev.spawnAtCap) => ~ev.spawnChanged

\* C5 witness: a frame called spawnNode on a full pool.
C5_Witness == FrameRan /\ ev.spawnCalled /\ ev.spawnAtCap /\ Len(nodes) = MAX_NODES

\* C6: at the end of every frame no node in the pool is older than its
\* lifetime, and every node the frame removed was older than its lifetime.
C6_PruneExact ==
  FrameRan =>
    /\ \A n \in Range(nodes) : now - n.birthTime <= n.lifetime
    /\ \A n \in ev.prunedNodes : now - n.birthTime > n.lifetime

\* C6 witness: a frame removed a node and kept one whose age equals its lifetime.
C6_Witness ==
  /\ FrameRan
  /\ ev.prunedNodes # {}
  /\ \E n \in Range(nodes) : now - n.birthTime = n.lifetime

CurrentRGB == arrays[currentColor]
Within1(c, t) == \A ch \in 1..3 : Abs(t[ch] - c[ch]) <= ColorScale

\* C7: the Current Color changes only in a frame, and there each channel
\* moves toward the target read in that frame by 0.025 of its remaining
\* distance (to the resolution of the model): it is never set to the target.
C7_SmoothStep ==
  [][ LET T == getTargetColor(arrays, canvasRiskScore)
          cur == arrays[currentColor]
          nxt == arrays'[currentColor']
      IN IF ev'.kind = "frame"
         THEN \A ch \in 1..3 :
                LET d == T[ch] - cur[ch]
                    m == nxt[ch] - cur[ch]
                IN /\ 40 * Abs(m) <= Abs(d)
                   /\ Abs(d) - 40 * Abs(m) < 40
                   /\ (d >= 0 => m >= 0) /\ (d <= 0 => m <= 0)
                   /\ (nxt[ch] = T[ch] => cur[ch] = T[ch])
         ELSE nxt = cur ]_vars

\* C7 witness: a frame ran after two score writes, with a numeric score, and
\* the colour is on its way (neither neutral nor at the target).
C7_Witness ==
  /\ FrameRan /\ scoreWrites >= 2 /\ ~canvasRiskScore.null
  /\ CurrentRGB # NEUTRAL_RGB /\ CurrentRGB # targetColor

\* C8 (amended): with a constant target every smoothing step moves each
\* channel toward the target without passing it, and after 195 steps every
\* channel is within 1 unit of the target.
C8_Converges ==
  /\ [](frameCount >= 195 => Within1(CurrentRGB, targetColor))
  /\ [][ \A ch \in 1..3 :
           LET t == targetColor[ch]
               c == arrays[currentColor][ch]
               n == arrays'[currentColor'][ch]
           IN /\ (c <= t => c <= n /\ n <= t)
              /\ (c >= t => t <= n /\ n <= c) ]_vars

\* C8 witness: the slowest run (a channel that started 138 units away) is at
\* its 195th step within 1 unit of the target, and still more than 0.99 away.
C8_Witness ==
  /\ pc = "lerpRGB" /\ frameCount = 195
  /\ Within1(CurrentRGB, targetColor)
  /\ \E ch \in 1..3 : 100 * Abs(targetColor[ch] - CurrentRGB[ch]) > 99 * ColorScale

\* C8 as claimed: within 1 unit in fewer than 180 frames, from any start.
C8_Within180 == frameCount >= 179 => Within1(CurrentRGB, targetColor)

\* C9: getTargetColor(null) is the neutral colour (60, 62, 70) in every
\* state, the array COLOR_NEUTRAL keeps these contents, and a frame that
\* reads a null score gets the neutral colour as its target.
C9_NullIsNeutral ==
  /\ getTargetColor(arrays, NULL) = <<60 * ColorScale, 62 * ColorScale, 70 * ColorScale>>
  /\ arrays["COLOR_NEUTRAL"] = <<60 * ColorScale, 62 * ColorScale, 70 * ColorScale>>
  /\ (FrameRan /\ canvasRiskScore.null)
        => targetColor = <<60 * ColorScale, 62 * ColorScale, 70 * ColorScale>>

\* C9 witness: after numeric scores moved the colour away, a frame read null.
C9_Witness ==
  /\ FrameRan /\ canvasRiskScore.null /\ scoreWrites >= 2
  /\ CurrentRGB # NEUTRAL_RGB
  /\ targetColor = NEUTRAL_RGB

\* C10: for a score in [0, 100] the result is the channel-wise linear
\* interpolation between the consecutive stops of {0, 25, 40, 60, 75, 100}
\* that bracket it; at a stop score it is that stop's colour; the results for
\* 0 and 25 are equal.
C10_Interpolation ==
  /\ [i \in 1..Len(COLOR_STOPS) |-> COLOR_STOPS[i].score] = <<0, 25, 40, 60, 75, 100>>
  /\ (pc = "returned" /\ ~canvasRiskScore.null
        /\ canvasRiskScore.value >= 0 /\ canvasRiskScore.value <= 100)
     => LET v == canvasRiskScore.value
        IN /\ \A i \in 1..(Len(COLOR_STOPS) - 1) :
                LET a == COLOR_STOPS[i]
                    b == COLOR_STOPS[i + 1]
                IN (a.score <= v /\ v <= b.score)
                   => \A ch \in 1..3 :
                        targetColor[ch] * (b.score - a.score)
                          = a.color[ch] * (b.score - v) + b.color[ch] * (v - a.score)
           /\ \A i \in 1..Len(COLOR_STOPS) :
                v = COLOR_STOPS[i].score => targetColor = COLOR_STOPS[i].color
           /\ (v = 0 \/ v = 25) => targetColor = <<58 * ColorScale, 138 * ColorScale, 92 * ColorScale>>

\* C10 witness: a score strictly inside a sloped bracket gave a colour that
\* is none of the stops' colours.
C10_Witness ==
  /\ pc = "returned" /\ canvasRiskScore = Num(30)
  /\ \A i \in 1..Len(COLOR_STOPS) : targetColor # COLOR_STOPS[i].color

\* C11: a numeric score below 0 gives the colour of score 0, and a score above
\* 100 gives the last stop's colour (184, 58, 42).
C11_Clamped ==
  (pc = "returned" /\ ~canvasRiskScore.null)
  => /\ canvasRiskScore.value < 0
          => /\ targetColor = getTargetColor(arrays, Num(0))
             /\ targetColor = <<58 * ColorScale, 138 * ColorScale, 92 * ColorScale>>
     /\ canvasRiskScore.value > 100
          => targetColor = <<184 * ColorScale, 58 * ColorScale, 42 * ColorScale>>

\* C11 witness: a call with a score below 0 returned the colour of score 0.
C11_Witness ==
  /\ pc = "returned" /\ ~canvasRiskScore.null /\ canvasRiskScore.value < -1
  /\ targetColor = COLOR_STOPS[1].color

\* C12: for a score in [0, 25] the green channel of the result exceeds the red
\* one, and for a score in [75, 100] the red channel exceeds the green one.
C12_RiskEncoding ==
  (pc = "returned" /\ ~canvasRiskScore.null)
  => LET v == canvasRiskScore.value
     IN /\ (0 <= v /\ v <= 25) => targetColor[2] > targetColor[1]
        /\ (75 <= v /\ v <= 100) => targetColor[1] > targetColor[2]

\* C12 witness: a score inside the last bracket returned a colour with more
\* red than green.
C12_Witness ==
  /\ pc = "returned" /\ canvasRiskScore = Num(80)
  /\ targetColor[1] > targetColor[2]

\* x <= y for two opacities
OpLeq(x, y) == x.num * y.den <= y.num * x.den

\* C13: lifecycleOpacity(age, lifetime) lies in [0, 1]; it is 0 for age < 0 and
\* for age > lifetime; on [0, 0.10 lifetime) it equals age / (0.10 lifetime)
\* and does not decrease; on [0.10 lifetime, 0.60 lifetime] it is 1; on
\* [0.60 lifetime, lifetime] it does not increase, and it is 0 at
\* age = lifetime.
C13_OpacityShape ==
  pc = "returned"
  => LET age == ev.args[1]
         lifetime == ev.args[2]
         op == ev.ret[1]
         Earlier == { a \in 0..age : TRUE }
     IN /\ op.den > 0 /\ 0 <= op.num /\ op.num <= op.den
        /\ (age < 0 \/ age > lifetime) => op.num = 0
        /\ (0 <= age /\ 10 * age < lifetime)
             => /\ op.num * lifetime = 10 * age * op.den
                /\ \A a \in Earlier : OpLeq(lifecycleOpacity(a, lifetime), op)
        /\ (lifetime <= 10 * age /\ 10 * age <= 6 * lifetime) => op.num = op.den
        /\ (6 * lifetime <= 10 * age /\ age <= lifetime)
             => \A a \in Earlier :
                  6 * lifetime <= 10 * a => OpLeq(op, lifecycleOpacity(a, lifetime))
        /\ age = lifetime => op.num = 0

\* C13 witness: a call during the fade-out returned a value strictly between
\* 0 and 1.
C13_Witness ==
  /\ pc = "returned" /\ ev.ret # <<>>
  /\ 6 * ev.args[2] < 10 * ev.args[1] /\ ev.args[1] < ev.args[2]
  /\ 0 < ev.ret[1].num /\ ev.ret[1].num < ev.ret[1].den

\* C14: a frame callback that finds w = 0 or h = 0 leaves the pools, the
\* current colour and both last-spawn times as they are, paints nothing,
\* re-reads the client size into w and h (keeping them when the client size
\* has a zero), and leaves the frame loop running.
C14_DeferredFrame ==
  [][ (frameCount' # frameCount /\ (w = 0 \/ h = 0))
      => /\ UNCHANGED << nodes, connections, nodeMap, nextId, arrays, currentColor,
                         lastNodeSpawn, lastConnSpawn >>
         /\ ~ev'.painted.cleared
         /\ ev'.painted.strokes = <<>> /\ ev'.painted.glows = {} /\ ev'.painted.dots = {}
         /\ << w', h' >> = IF client[1] # 0 /\ client[2] # 0 THEN client ELSE << w, h >>
         /\ pc' = "running" ]_vars

\* C14 witness: a deferred frame found the surface laid out and took its size,
\* with the seeded pools still in place.
C14_Witness ==
  /\ ev.kind = "deferred" /\ w = 1200 /\ h = 800
  /\ Len(nodes) = 2 /\ Len(connections) = 1
  /\ lastNodeSpawn = 0 /\ lastConnSpawn = 0 /\ now > 0

\* The opacity of the node with this id at the time of the latest frame
OpacityNow(id) ==
  LET n == nodes[CHOOSE i \in 1..Len(nodes) : nodes[i].id = id]
  IN lifecycleOpacity(now - n.birthTime, n.lifetime)

\* C15: after a frame, every stroke drawn for a connection has both endpoints
\* in the node pool with positive opacity, its opacity factor (line alpha
\* over distance falloff and over the maximum line alpha 0.38) is at most the
\* opacity of either endpoint, and no stroke is drawn for a connection that
\* has an endpoint of opacity 0.
C15_ConnGate ==
  FrameRan
  => /\ \A k \in 1..Len(ev.painted.strokes) :
          LET st == ev.painted.strokes[k]
          IN /\ st.idA \in NodeIds /\ st.idB \in NodeIds
             /\ \A id \in {st.idA, st.idB} :
                  /\ OpacityNow(id).num > 0
                  /\ OpLeq(st.connOp, OpacityNow(id))
                  /\ ((st.lineAlpha * 100) \div 38) * OpacityNow(id).den
                        <= st.distFade * OpacityNow(id).num
     /\ \A i \in 1..Len(connections) :
          (\E id \in ConnPair(connections[i]) : OpacityNow(id).num = 0)
          => ~\E k \in 1..Len(ev.painted.strokes) :
                 ConnPair(ev.painted.strokes[k]) = ConnPair(connections[i])

\* C15 witness: a frame drew a connection that has finished fading in, at the
\* opacity of an endpoint that is fading out.
C15_Witness ==
  /\ FrameRan
  /\ \E k \in 1..Len(ev.painted.strokes), i \in 1..Len(connections) :
       LET st == ev.painted.strokes[k]
       IN /\ ConnPair(connections[i]) = ConnPair(st)
          /\ now - connections[i].birthTime >= CONN_FADE_IN
          /\ st.connOp.num < st.connOp.den
          /\ \E id \in ConnPair(st) : st.connOp = OpacityNow(id)

\* The score of the result shown by the slide at carouselIndex: null for an
\* error card and when there is no such slide
DisplayedScore ==
  IF carouselIndex + 1 \notin 1..Len(allSlides) THEN NULL
  ELSE IF allSlides[carouselIndex + 1].error THEN NULL
  ELSE allSlides[carouselIndex + 1].score

\* The slide at carouselIndex, if it is a stock card, was built from a result
\* that carries a score
DisplayedScored ==
  carouselIndex + 1 \in 1..Len(allSlides)
    => allSlides[carouselIndex + 1].error \/ ~allSlides[carouselIndex + 1].score.null

NodeOf(id) == nodes[CHOOSE i \in 1..Len(nodes) : nodes[i].id = id]

\* The simulated time a connection was created at: 0 for a seed connection
\* (its birthTime is a stagger <= 0), its birthTime for a spawned one
CreatedAt(c) == IF c.birthTime <= 0 THEN 0 ELSE c.birthTime

\* C17: the lifetime of every connection is the minimum of its endpoints'
\* remaining lifetimes at the time it was created (time 0 for connections
\* made by seedConnections, the frame's time for trySpawnConnection).
C17_LifetimeIsMinRemaining ==
  \A i \in 1..Len(connections) :
    LET c == connections[i]
    IN /\ c.idA \in NodeIds /\ c.idB \in NodeIds
       /\ c.lifetime = Min(NodeOf(c.idA).lifetime - (CreatedAt(c) - NodeOf(c.idA).birthTime),
                           NodeOf(c.idB).lifetime - (CreatedAt(c) - NodeOf(c.idB).birthTime))

\* C17 witness: a frame added a connection whose lifetime is what is left of
\* its partner, less than what is left of its origin, next to a seeded one.
C17_Witness ==
  /\ FrameRan /\ ev.connAdded
  /\ \E i, j \in 1..Len(connections) :
       /\ connections[i].birthTime < 0
       /\ connections[j].birthTime = now
       /\ connections[j].lifetime
            < NodeOf(connections[j].idA).lifetime - (now - NodeOf(connections[j].idA).birthTime)

\* Squared distance between a point and the drifted position of node m at
\* the given time
Dist2(x, y, m, time) ==
  LET mx == m.x + m.driftX * (time - m.birthTime)
      my == m.y + m.driftY * (time - m.birthTime)
  IN (x - mx) * (x - mx) + (y - my) * (y - my)

\* C18: a frame that calls spawnNode adds at most one node, after at most 8
\* createNode calls; the node it adds is at least MIN_NODE_DIST from the
\* drifted position of every node of the pool whose age does not exceed its
\* lifetime; when it adds none below capacity, 8 candidates were drawn and
\* the pool holds what it held (less what the frame pruned).
C18_SpawnNode ==
  [][ (ev'.kind = "frame" /\ ev'.spawnCalled)
      => LET new == { n \in Range(nodes') : n.birthTime = now' }
         IN /\ Cardinality(new) <= 1
            /\ nextId' - nextId <= 8
            /\ Range(nodes') \cup ev'.prunedNodes = Range(nodes) \cup new
            /\ \A n \in new :
                 /\ n.id >= nextId /\ nextId' = n.id + 1
                 /\ n \notin Range(nodes)
                 /\ \A m \in Range(nodes) :
                      now' - m.birthTime <= m.lifetime
                      => Dist2(n.x, n.y, m, now') >= MIN_NODE_DIST * MIN_NODE_DIST
            /\ (new = {} /\ Len(nodes) < MAX_NODES) => nextId' = nextId + 8
            /\ pc' = "running" ]_vars

\* C18 witness: below capacity, spawnNode drew its candidates and rejected
\* them all, next to a node that is alive.
C18_Witness ==
  /\ FrameRan /\ ev.spawnCalled /\ ~ev.spawnAtCap /\ ev.spawnChanged
  /\ \A n \in Range(nodes) : n.birthTime < now
  /\ \E n \in Range(nodes) : now - n.birthTime < n.lifetime

\* The opacity of the node with this id at the given time
OpacityAt(ns, id, time) ==
  LET n == ns[CHOOSE i \in 1..Len(ns) : ns[i].id = id]
  IN lifecycleOpacity(time - n.birthTime, n.lifetime)

\* C19: a frame adds at most one connection, and only through
\* trySpawnConnection with the connection pool below MAX_CONNECTIONS, between
\* two different nodes of the pool, the origin with opacity at least 0.5 and
\* the partner with opacity at least 0.3 at the frame's time; otherwise the
\* frame adds no connection, and the pool is what it was less the connections
\* the frame pruned.
C19_SpawnConnection ==
  [][ ev'.kind = "frame"
      => LET new == Range(connections') \ Range(connections)
         IN /\ Cardinality(new) <= 1
            /\ new # {} <=> ev'.connAdded
            /\ Range(connections') \cup ev'.prunedConns = Range(connections) \cup new
            /\ \A c \in new :
                 /\ ev'.connCalled
                 /\ Len(connections) < MAX_CONNECTIONS
                 /\ Len(nodes') >= 2
                 /\ c.idA # c.idB
                 /\ c.idA \in { nodes'[i].id : i \in 1..Len(nodes') }
                 /\ c.idB \in { nodes'[i].id : i \in 1..Len(nodes') }
                 /\ 2 * OpacityAt(nodes', c.idA, now').num >= OpacityAt(nodes', c.idA, now').den
                 /\ 10 * OpacityAt(nodes', c.idB, now').num
                      >= 3 * OpacityAt(nodes', c.idB, now').den
                 /\ c.birthTime = now' ]_vars

\* C19 witness: a frame added a connection to a partner that is not at full
\* opacity.
C19_Witness ==
  /\ FrameRan /\ ev.connAdded
  /\ \E i \in 1..Len(connections) :
       /\ connections[i].birthTime = now
       /\ OpacityNow(connections[i].idB).num < OpacityNow(connections[i].idB).den

\* C20: a frame on a usable surface runs colour smoothing, node spawn,
\* connection spawn, node pruning, connection pruning and then painting, in
\* that order; between its first and its last step no other callback runs;
\* and once the surface has been cleared the frame changes neither a pool nor
\* the colour.
C20_FixedOrder ==
  [][ LET order == << "colorSmoothing", "nodeSpawn", "connSpawn", "nodePrune", "connPrune",
                      "clear", "draw" >>
      IN /\ (ev.kind = "frame" /\ pc # "running")
              => /\ ev'.kind = "frame"
                 /\ Len(ev.steps) < Len(order)
                 /\ ev'.steps = SubSeq(order, 1, Len(ev.steps) + 1)
         /\ (ev'.kind = "frame" /\ pc' = "running" /\ pc # "running")
              => ev'.steps = order
         /\ pc # "running" => ev.kind = "frame"
         /\ (ev.kind = "frame" /\ ev.painted.cleared)
              => UNCHANGED << poolVars, colorVars, lastNodeSpawn, lastConnSpawn >>
    ]_vars

\* C20 witness: a frame that followed a write of the risk score has returned
\* after moving the colour towards a new target, spawning a node, pruning a
\* node and a connection, and clearing the surface.
C20_Witness ==
  /\ pc = "running" /\ ev.kind = "frame" /\ ev.steps = renderSteps
  /\ scoreWrites > 0 /\ targetColor # NEUTRAL_RGB
  /\ ev.spawnChanged /\ ev.prunedNodes # {} /\ ev.prunedConns # {}
  /\ ev.painted.cleared

\* The layer of a canvas operation, with the glow halos below the core dots
\* (layered) or in one layer with them
OpLayer(o, layered) ==
  CASE o.op = "fill" -> 0
    [] o.op = "star" -> 1
    [] o.op = "line" -> 2
    [] o.op = "glow" -> 3
    [] o.op = "dot" -> IF layered THEN 4 ELSE 3

\* C21 as stated: the canvas operations of a frame come in layer order, fill,
\* stars, connections, glow halos, core dots, so that no glow halo is painted
\* after a core dot.
C21_AllGlowsFirst ==
  FrameRan
  => \A i, j \in 1..Len(ev.ops) :
       i < j => OpLayer(ev.ops[i], TRUE) <= OpLayer(ev.ops[j], TRUE)

\* C21 amended: the canvas operations of a frame are one fill, then the stars,
\* then the connections, then the nodes one after the other, each node's glow
\* halo (when it has one) immediately before its own core dot; every node of
\* the position map gets exactly one core dot.
C21_NodeByNode ==
  FrameRan
  => /\ Len(ev.ops) >= 1 /\ ev.ops[1].op = "fill"
     /\ \A i \in 2..Len(ev.ops) : ev.ops[i].op # "fill"
     /\ \A i, j \in 1..Len(ev.ops) :
          i < j => OpLayer(ev.ops[i], FALSE) <= OpLayer(ev.ops[j], FALSE)
     /\ \A i \in 1..Len(ev.ops) :
          ev.ops[i].op = "glow"
          => /\ i < Len(ev.ops)
             /\ ev.ops[i + 1] = [ op |-> "dot", id |-> ev.ops[i].id ]
     /\ \A id \in ev.painted.dots :
          Cardinality({ i \in 1..Len(ev.ops) : ev.ops[i] = [ op |-> "dot", id |-> id ] }) = 1
     /\ \A id \in ev.painted.glows :
          \E i \in 1..Len(ev.ops) : ev.ops[i] = [ op |-> "glow", id |-> id ]

\* C21 witness: a frame painted stars, a connection and two nodes with glow
\* halos.
C21_Witness ==
  /\ FrameRan
  /\ \E i \in 1..Len(ev.ops) : ev.ops[i].op = "star"
  /\ \E i \in 1..Len(ev.ops) : ev.ops[i].op = "line"
  /\ Cardinality({ i \in 1..Len(ev.ops) : ev.ops[i].op = "glow" }) >= 2
  /\ Cardinality({ i \in 1..Len(ev.ops) : ev.ops[i].op = "dot" }) >= 2

\* The connection a stroke was drawn for
ConnOfStroke(st) ==
  connections[CHOOSE i \in 1..Len(connections) : ConnPair(connections[i]) = ConnPair(st)]

\* The fade-in ramp of a stroke's connection and the smaller of its endpoints'
\* opacities, from the pools after the frame
FadeInNow(st) == connFadeIn(now - ConnOfStroke(st).birthTime)
GateNow(st) == OpMin(OpacityNow(st.idA), OpacityNow(st.idB))

\* The distance falloff of a stroke times MAX_LINE_ALPHA, in millionths, and
\* the falloff recomputed from the endpoints' drifted positions
CapFade(st) == (st.distFade * MAX_LINE_ALPHA) \div 100
FalloffNow(st) ==
  LET a == NodeOf(st.idA)
      b == NodeOf(st.idB)
  IN distFadeOf([ px |-> (a.x + a.driftX * (now - a.birthTime)) * w,
                  py |-> (a.y + a.driftY * (now - a.birthTime)) * h ],
                [ px |-> (b.x + b.driftX * (now - b.birthTime)) * w,
                  py |-> (b.y + b.driftY * (now - b.birthTime)) * h ], w, h)

\* C22 as stated: the alpha of every stroke (three decimals) is the product
\* fade-in ramp * smaller endpoint opacity * distance falloff * 0.38.
C22_FourFactorProduct ==
  FrameRan
  => \A k \in 1..Len(ev.painted.strokes) :
       LET st == ev.painted.strokes[k]
           gated == (CapFade(st) * GateNow(st).num) \div GateNow(st).den
       IN /\ st.distFade = FalloffNow(st)
          /\ st.alpha = ((gated * FadeInNow(st).num) \div FadeInNow(st).den + 500) \div 1000

\* C22 amended: the alpha of every stroke (three decimals) is the product
\* min(fade-in ramp, smaller endpoint opacity) * distance falloff * 0.38, and
\* a stroke is drawn only when that product is at least 0.003.
C22_MinTimesFalloff ==
  FrameRan
  => \A k \in 1..Len(ev.painted.strokes) :
       LET st == ev.painted.strokes[k]
           m == OpMin(FadeInNow(st), GateNow(st))
           product == (CapFade(st) * m.num) \div m.den
       IN /\ st.distFade = FalloffNow(st)
          /\ product >= 3000
          /\ st.alpha = (product + 500) \div 1000

\* C22 witness: a frame drew a connection that is still fading in between
\* endpoints of which one is not at full opacity.
C22_Witness ==
  /\ FrameRan
  /\ \E k \in 1..Len(ev.painted.strokes) :
       LET st == ev.painted.strokes[k]
       IN /\ FadeInNow(st).num < FadeInNow(st).den
          /\ GateNow(st).num < GateNow(st).den
          /\ st.distFade < 1000000

\* C23: a frame invokes spawnNode only when its time exceeds lastNodeSpawn,
\* the time of the previous invocation, by more than NODE_SPAWN_INTERVAL, and
\* trySpawnConnection only when it exceeds lastConnSpawn by more than
\* CONN_SPAWN_INTERVAL; each timestamp becomes the frame's time exactly in the
\* frames that invoke, whether or not something was added.
C23_SpawnGate ==
  [][ ev'.kind = "frame"
      => /\ ev'.spawnCalled => now' - lastNodeSpawn > NODE_SPAWN_INTERVAL
         /\ ev'.connCalled => now' - lastConnSpawn > CONN_SPAWN_INTERVAL
         /\ lastNodeSpawn' = IF ev'.spawnCalled THEN now' ELSE lastNodeSpawn
         /\ lastConnSpawn' = IF ev'.connCalled THEN now' ELSE lastConnSpawn
         /\ ev'.spawnChanged => ev'.spawnCalled
         /\ ev'.connAdded => ev'.connCalled ]_vars

\* C23 witness: a frame invoked trySpawnConnection, which added nothing, and
\* skipped spawnNode, which an earlier frame had invoked.
C23_Witness ==
  /\ FrameRan
  /\ ev.connCalled /\ ~ev.connAdded /\ lastConnSpawn = now
  /\ ~ev.spawnCalled /\ 0 < lastNodeSpawn /\ lastNodeSpawn < now

\* C24: seedConnections starts with SEED_CONN_ATTEMPTS attempts; every
\* iteration uses one attempt and adds at most one connection, an iteration is
\* entered only with attempts left and fewer than SEED_CONN_TARGET connections
\* added, the loop can always either iterate or return, and it returns with at
\* most SEED_CONN_TARGET connections after at most SEED_CONN_ATTEMPTS
\* iterations.
C24_SeedConnectionsBounded ==
  /\ [](pc = "seedConnections" => ENABLED (SeedConnectionsStep \/ SeedConnectionsDone))
  /\ [][ /\ (pc = "seedNodes" /\ pc' = "seedConnections")
              => attempts' = SEED_CONN_ATTEMPTS /\ spawned' = 0 /\ connections' = <<>>
         /\ (pc = "seedConnections" /\ pc' = "seedConnections")
              => /\ attempts > 0 /\ attempts' = attempts - 1
                 /\ spawned < SEED_CONN_TARGET
                 /\ spawned' - spawned \in {0, 1}
                 /\ Len(connections') = Len(connections) + (spawned' - spawned)
                 /\ Len(connections') = spawned'
                 /\ spawned' <= SEED_CONN_ATTEMPTS - attempts'
         /\ (pc = "seedConnections" /\ pc' = "running")
              => /\ Len(connections') <= SEED_CONN_TARGET
                 /\ Len(connections') = spawned
                 /\ attempts >= 0
                 /\ attempts = 0 \/ spawned = SEED_CONN_TARGET ]_vars

\* C24 witness: an iteration of seedConnections has added the connection
\* that reaches the target count while an attempt is left.
C24_Witness ==
  /\ pc = "seedConnections" /\ ev.kind = "seedConnections" /\ ev.connAdded
  /\ spawned = SEED_CONN_TARGET /\ attempts > 0
  /\ Len(connections) = SEED_CONN_TARGET

\* Squared distance between the undrifted positions of two nodes
StaticDist2(n, m) == (n.x - m.x) * (n.x - m.x) + (n.y - m.y) * (n.y - m.y)

\* C25 as stated: an iteration of seedNodes places no node within
\* MIN_NODE_DIST of an already placed one, places no node when it rejected all
\* its SEED_ATTEMPTS candidates, and every seed node is born at or before 0.
C25_SeedRejectsLikeSpawn ==
  [][ (pc = "seedNodes" /\ seedI' = seedI + 1)
      => LET new == Range(nodes') \ Range(nodes)
         IN /\ \A n \in new : \A m \in Range(nodes) :
                 StaticDist2(n, m) >= MIN_NODE_DIST * MIN_NODE_DIST
            /\ nextId' - nextId > SEED_ATTEMPTS => new = {}
            /\ \A n \in Range(nodes') : n.birthTime <= 0 ]_vars

\* C25 amended: an iteration of seedNodes places exactly one node; when one of
\* its SEED_ATTEMPTS candidates was accepted, that node is at least
\* MIN_NODE_DIST from the undrifted position of every node placed before;
\* after SEED_ATTEMPTS rejections it places one more candidate without a
\* collision test; every seed node is born at or before 0.
C25_SeedFallback ==
  [][ (pc = "seedNodes" /\ seedI' = seedI + 1)
      => LET new == Range(nodes') \ Range(nodes)
         IN /\ Len(nodes') = Len(nodes) + 1
            /\ new = { nodes'[Len(nodes')] }
            /\ SubSeq(nodes', 1, Len(nodes)) = nodes
            /\ nextId' - nextId \in 1..(SEED_ATTEMPTS + 1)
            /\ \A n \in new :
                 /\ n.id = nextId' - 1
                 /\ nextId' - nextId <= SEED_ATTEMPTS
                      => \A m \in Range(nodes) :
                           StaticDist2(n, m) >= MIN_NODE_DIST * MIN_NODE_DIST
                 /\ n.birthTime <= 0
                 /\ n.id \in DOMAIN nodeMap' /\ nodeMap'[n.id] = n ]_vars

\* C25 witness: the second iteration of seedNodes rejected SEED_ATTEMPTS
\* candidates and placed its fallback within MIN_NODE_DIST of the first seed.
C25_Witness ==
  /\ pc = "seedNodes" /\ ev.kind = "seedNodes" /\ Len(nodes) = 2
  /\ nodes[2].id = nodes[1].id + SEED_ATTEMPTS + 1
  /\ StaticDist2(nodes[2], nodes[1]) < MIN_NODE_DIST * MIN_NODE_DIST

\* C26: the ids of the nodes in the pool are pairwise different, increase in
\* the order the nodes were added and lie below nextId; nextId never
\* decreases; and a node that enters the pool has an id of at least the
\* nextId before the step, so larger than the id of every node placed
\* earlier, removed or not.
C26_UniqueIncreasingIds ==
  /\ [](/\ \A i, j \in 1..Len(nodes) : i < j => nodes[i].id < nodes[j].id
        /\ \A i \in 1..Len(nodes) : 0 <= nodes[i].id /\ nodes[i].id < nextId)
  /\ [][ /\ nextId' >= nextId
         /\ \A n \in Range(nodes') :
              n.id \notin { nodes[i].id : i \in 1..Len(nodes) } => n.id >= nextId ]_vars

\* C26 witness: a frame removed a node and added one, after a rejected
\* candidate, whose id is larger than the removed node's.
C26_Witness ==
  /\ FrameRan /\ ev.prunedNodes # {}
  /\ \E n \in Range(nodes) :
       /\ n.birthTime = now
       /\ \A p \in ev.prunedNodes : p.id < n.id
       /\ \E m \in Range(nodes) \cup ev.prunedNodes : m.id < n.id - 1
       /\ \A m \in Range(nodes) \cup ev.prunedNodes : m.id # n.id - 1

\* C27: the start-up script requests the first frame; from then on exactly
\* one frame callback is pending between two callbacks; a frame callback,
\* deferred or not, runs only when one is pending and leaves exactly one
\* pending; no other callback changes the number.
C27_OnePendingFrame ==
  /\ [](pc = "running" => rafPending = 1)
  /\ [][ /\ ev'.kind \in {"frame", "deferred"}
              => /\ rafPending = 1 /\ rafPending' = 1
                 /\ frameCount' = frameCount + 1
         /\ ev'.kind \notin {"frame", "deferred"}
              => \/ rafPending' = rafPending
                 \/ /\ pc = "seedConnections" /\ pc' = "running"
                    /\ rafPending = 0 /\ rafPending' = 1 ]_vars

\* C27 witness: a second frame callback in a row has taken the deferred path,
\* this time resizing to a usable surface, and one callback is pending.
C27_Witness ==
  /\ pc = "running" /\ ev.kind = "deferred" /\ frameCount >= 2
  /\ w > 0 /\ h > 0
  /\ rafPending = 1

(* ------------------------------------------------------------------ *)
(* C28                                                                 *)
(* ------------------------------------------------------------------ *)
\* The value a frame's colour step finds in canvasRiskScore, told from the
\* history alone: the last of the writes since the previous reading frame,
\* or, without one, the value that frame already found.
LastWritten(e, before) ==
  IF e.writes = <<>> THEN before ELSE e.writes[Len(e.writes)]

\* C28: a non-deferred frame derives its target colour from the value written
\* last before it ran, and moves the Current Color toward that target only;
\* the writes before the last one, and every step that is not a frame, leave
\* the colour state as it was.
C28_LastWriteWins ==
  /\ [](ev.writes # <<>> => canvasRiskScore = ev.writes[Len(ev.writes)])
  /\ [][ /\ ev'.kind = "frame"
             => LET T == getTargetColor(arrays, LastWritten(ev', canvasRiskScore))
                IN /\ targetColor' = T
                   /\ arrays' = lerpRGB(arrays, currentColor, T)
                   /\ canvasRiskScore' = canvasRiskScore
         /\ ev'.kind # "frame" => UNCHANGED colorVars ]_vars

\* C28 witness: 10 and then 90 were written between the first frame and this
\* one; the frame's target is the colour of 90, not that of 10, and the
\* Current Color has left the neutral colour.
C28_Witness ==
  /\ ev.kind = "frame" /\ frameCount >= 2
  /\ ev.writes = << Num(10), Num(90) >>
  /\ targetColor = getTargetColor(arrays, Num(90))
  /\ targetColor # getTargetColor(arrays, Num(10))
  /\ arrays[currentColor] # NEUTRAL_RGB

(* ------------------------------------------------------------------ *)
(* C29                                                                 *)
(* ------------------------------------------------------------------ *)
\* C29: with reduced motion every step of a frame on a usable surface does
\* its work except the two spawn steps: the colour step moves each channel of
\* the Current Color toward the target, the spawn steps change neither a pool
\* nor a spawn time, the node prune leaves exactly the unexpired nodes, the
\* connection prune leaves exactly the unexpired connections between present
\* nodes, and the frame ends after all its steps, painting included.
C29_ReducedMotionFrame ==
  [][ (prefersReducedMotion /\ ev'.kind = "frame")
        => /\ pc = "colorSmoothing"
                => LET T == getTargetColor(arrays, canvasRiskScore)
                       cur == arrays[currentColor]
                       nxt == arrays'[currentColor']
                   IN \A ch \in 1..3 :
                        /\ Abs(T[ch] - nxt[ch]) <= Abs(T[ch] - cur[ch])
                        /\ Abs(T[ch] - cur[ch]) >= LERP_DIVISOR
                              => Abs(T[ch] - nxt[ch]) < Abs(T[ch] - cur[ch])
           /\ pc \in {"nodeSpawn", "connSpawn"}
                => UNCHANGED << poolVars, lastNodeSpawn, lastConnSpawn >>
           /\ pc = "nodePrune"
                => /\ nodes' = SelectSeq(nodes, LAMBDA n : now - n.birthTime <= n.lifetime)
                   /\ DOMAIN nodeMap' = { nodes'[i].id : i \in 1..Len(nodes') }
           /\ pc = "connPrune"
                => connections'
                     = SelectSeq(connections,
                                 LAMBDA c : /\ now - c.birthTime <= c.lifetime
                                            /\ \E n \in Range(nodes) : n.id = c.idA
                                            /\ \E n \in Range(nodes) : n.id = c.idB)
           /\ (pc # "running" /\ pc' = "running")
                => /\ ev'.steps = renderSteps
                   /\ ev'.painted.cleared
                   /\ ~ev'.spawnCalled /\ ~ev'.connCalled
    ]_vars

\* C29 witness: with reduced motion a frame has returned that moved the
\* colour toward a non-neutral target, removed a node and a connection, and
\* painted, at a time when both spawn intervals had passed.
C29_Witness ==
  /\ prefersReducedMotion
  /\ pc = "running" /\ ev.kind = "frame" /\ ev.steps = renderSteps
  /\ targetColor # NEUTRAL_RGB /\ arrays[currentColor] # NEUTRAL_RGB
  /\ ev.prunedNodes # {} /\ ev.prunedConns # {}
  /\ ev.painted.cleared
  /\ now - lastNodeSpawn > NODE_SPAWN_INTERVAL
  /\ now - lastConnSpawn > CONN_SPAWN_INTERVAL

(* ------------------------------------------------------------------ *)
(* C30                                                                 *)
(* ------------------------------------------------------------------ *)
\* The error entries a failed request owes: one for each ticker of the
\* request, in order
OneErrorPerTicker(errors, list) ==
  /\ Len(errors) = Len(list)
  /\ \A k \in 1..Len(list) : errors[k].ticker = list[k]

\* C30: the promise fetchStockData returned is never rejected; once it is
\* fulfilled its value has the four arrays, and the errors of a request that
\* failed (network error, non-OK status) are one entry for each requested
\* ticker.
C30_NeverRejects ==
  /\ stockData.promise.status # "rejected"
  /\ stockData.promise.status = "fulfilled"
       => LET payload == stockData.promise.value
          IN /\ DOMAIN payload = {"riskResults", "riskErrors", "healthResults", "healthErrors"}
             /\ \A f \in DOMAIN payload : DOMAIN payload[f] = 1..Len(payload[f])
             /\ stockData.settled # <<>>
                  => /\ stockData.settled[1].status = "rejected"
                          => OneErrorPerTicker(payload.riskErrors, stockData.tickerList)
                     /\ stockData.settled[2].status = "rejected"
                          => OneErrorPerTicker(payload.healthErrors, stockData.tickerList)

(* ------------------------------------------------------------------ *)
(* C31                                                                 *)
(* ------------------------------------------------------------------ *)
\* C31: through seeding, frames, spawns and prunes the node pool never holds
\* more than MAX_NODES nodes and the connection pool never more than
\* MAX_CONNECTIONS connections.
C31_PoolCaps ==
  /\ Len(nodes) <= MAX_NODES
  /\ Len(connections) <= MAX_CONNECTIONS

\* C31 witness: a frame called spawnNode and trySpawnConnection with both
\* pools full, and both are still exactly full.
C31_Witness ==
  /\ FrameRan
  /\ ev.spawnCalled /\ ev.spawnAtCap /\ ~ev.spawnChanged
  /\ ev.connCalled /\ ~ev.connAdded
  /\ Len(nodes) = MAX_NODES
  /\ Len(connections) = MAX_CONNECTIONS

(* ------------------------------------------------------------------ *)
(* C32                                                                 *)
(* ------------------------------------------------------------------ *)
\* The time at which a node or a connection expires
ExpiresAt(e) == e.birthTime + e.lifetime

\* C32: both endpoints of every connection are in the node pool and expire no
\* earlier than the connection does; and the connection a frame's
\* trySpawnConnection created is still in the pool when the frame has pruned.
C32_ConnExpiresFirst ==
  /\ \A c \in Range(connections) :
       /\ c.idA \in NodeIds /\ c.idB \in NodeIds
       /\ ExpiresAt(c) <= ExpiresAt(NodeOf(c.idA))
       /\ ExpiresAt(c) <= ExpiresAt(NodeOf(c.idB))
  /\ (FrameRan /\ ev.connAdded)
       => \E c \in Range(connections) : c.birthTime = now /\ c \notin ev.prunedConns

\* C32 witness: a frame created a connection that expires together with one
\* endpoint and before the other, and removed a node in the same frame.
C32_Witness ==
  /\ FrameRan /\ ev.connAdded /\ ev.prunedNodes # {}
  /\ \E c \in Range(connections) :
       /\ c.birthTime = now
       /\ ExpiresAt(c) = Min(ExpiresAt(NodeOf(c.idA)), ExpiresAt(NodeOf(c.idB)))
       /\ ExpiresAt(c) < Max(ExpiresAt(NodeOf(c.idA)), ExpiresAt(NodeOf(c.idB)))

(* ------------------------------------------------------------------ *)
(* C33                                                                 *)
(* ------------------------------------------------------------------ *)
\* C33: no connection of the pool joins a node to itself, and an iteration
\* of seedConnections that drew the same index twice adds nothing.
C33_NoSelfConnection ==
  /\ \A c \in Range(connections) : c.idA # c.idB
  /\ (ev.kind = "seedConnections" /\ ev.connCalled /\ ev.connLife = <<>>) => ~ev.connAdded

\* C33 witness: the pool holds a connection made by seedConnections and one
\* made by trySpawnConnection in the frame that has just run, whose origin
\* was itself alive enough to be a partner.
C33_Witness ==
  /\ FrameRan /\ ev.connAdded
  /\ \E c \in Range(connections) : c.birthTime < 0 /\ c.idA # c.idB
  /\ \E c \in Range(connections) :
       /\ c.birthTime = now /\ c.idA # c.idB
       /\ ~OpBelow(OpacityNow(c.idA), 3, 10)

(* ------------------------------------------------------------------ *)
(* C34                                                                 *)
(* ------------------------------------------------------------------ *)
\* The colours of the table: the neutral colour and the colour stops
TableColors == {NEUTRAL_RGB} \cup { COLOR_STOPS[i].color : i \in 1..Len(COLOR_STOPS) }
ChannelMin(ch) == CHOOSE v \in { c[ch] : c \in TableColors } : \A c \in TableColors : v <= c[ch]
ChannelMax(ch) == CHOOSE v \in { c[ch] : c \in TableColors } : \A c \in TableColors : v >= c[ch]

\* cr = currentColor[0] | 0 (and cg, cb): the integer painted
Painted(ch) == arrays[currentColor][ch] \div ColorScale

\* C34: every channel of the Current Color, and of the target, lies between
\* the least and the greatest value the channel has in the table of colours,
\* whatever scores are written between the frames; the integers painted are
\* in 0..255.
C34_ColorInRange ==
  \A ch \in 1..3 :
    /\ ChannelMin(ch) <= arrays[currentColor][ch]
    /\ arrays[currentColor][ch] <= ChannelMax(ch)
    /\ ChannelMin(ch) <= targetColor[ch] /\ targetColor[ch] <= ChannelMax(ch)
    /\ Painted(ch) \in 0..255

\* C34 witness: after several frames, the last one under a score above the
\* scale that followed another score, the blue channel is at its least value
\* of the table while the red channel is still on its way.
C34_Witness ==
  /\ ev.kind = "colorFrame" /\ frameCount >= 3
  /\ canvasRiskScore = Num(100 + ScoreMargin)
  /\ targetColor = COLOR_STOPS[Len(COLOR_STOPS)].color
  /\ arrays[currentColor][3] = ChannelMin(3)
  /\ arrays[currentColor][1] # targetColor[1]
  /\ arrays[currentColor][1] < ChannelMax(1)

\* C38: nodeMap and nodes describe the same set: the keys of nodeMap are the
\* ids of the nodes of the pool, and nodeMap[id] is the node with that id,
\* after every step of seedNodes and every frame's spawnNode and removeNode
\* calls.
C38_MapMatchesPool ==
  /\ DOMAIN nodeMap = { nodes[i].id : i \in 1..Len(nodes) }
  /\ \A i \in 1..Len(nodes) : nodeMap[nodes[i].id] = nodes[i]
  /\ \A i, j \in 1..Len(nodes) : nodes[i].id = nodes[j].id => i = j

\* C38 witness: a frame that both removed expired nodes and spawned a node,
\* with seeded nodes still in the pool.
C38_Witness ==
  /\ FrameRan
  /\ ev.prunedNodes # {}
  /\ ev.spawnChanged
  /\ \E i \in 1..Len(nodes) : nodes[i].birthTime <= 0
  /\ \E i \in 1..Len(nodes) : nodes[i].birthTime = now

====
